---- MODULE Spec2Model ----
(***************************************************************************)
(* quant-lab: Portfolio / Position / Trade accounting                      *)
(* (packages/core/quant_lab/portfolio), the backtest engine's run loop     *)
(* (packages/core/quant_lab/backtesting/engine.py) and the service call    *)
(* that drives it (packages/api/quant_lab_api/routes/backtest_service.py). *)
(* Three state machines share the module: Spec drives one portfolio        *)
(* through its public operations, SpecEngine and SpecReplay run the        *)
(* engine (once, and twice over the same inputs), SpecService serves one   *)
(* request without and with a progress hook.                               *)
(*                                                                         *)
(* Decimal values are modelled as exact rationals [n, d] in lowest terms   *)
(* (d > 0).  Python's Decimal context keeps 28 significant digits; every   *)
(* sum, difference and product reached within the bounds below has far     *)
(* fewer digits and is exact in the code as well.  A non-terminating       *)
(* quotient (the weighted-average cost) is kept exact here, the code       *)
(* rounds it at the 28th significant digit.                                *)
(***************************************************************************)
EXTENDS Integers, Sequences, FiniteSets, TLC

VARIABLES portfolio, last, pc, ops

\* the Portfolio object the last operation was called on, as it is once the
\* call is over
VARIABLES receiver

\* BacktestEngine: its inputs, its fields, the locals of run() and the
\* position inside run(); `now` is the wall clock read by datetime.now();
\* `calls` and `decisions` record the strategy invocations and what the
\* signal loop did with each signal; `first` keeps what an earlier run of
\* the same strategy, data and configuration produced.
VARIABLES market_data, config, trading_days, day_index,
          point_in_time_data,
          current_prices, signals, executed_trades, daily_snapshots, epc,
          now, calls, decisions, first

\* a second BacktestEngine running concurrently with the first: the fields
\* and locals of the one that is not executing at the moment
VARIABLES other

engineVars ==
    <<market_data, config, trading_days, day_index, point_in_time_data,
      current_prices, signals, executed_trades, daily_snapshots, epc,
      now, calls, decisions, first, other>>

\* BacktestService.run_backtest: the arguments of the call, the progress
\* hook handed to it, and the call itself (position, notifications made,
\* results_dict, how it ended); `plain` keeps how the call without a hook
\* ended for the same arguments.
VARIABLES request, progress_callback, service, plain

serviceVars == <<request, progress_callback, service, plain>>

\* POST /api/backtest/run (routes/backtest.py): `route` is the streaming
\* generator and its background task (position of each, items taken from
\* progress_queue, items the task put after the service ended, events
\* yielded to the client); `store` is the backtest_runs table.
VARIABLES route, store

routeVars == <<route, store>>

\* PerformanceMetrics: `calculator` is one calculator with the arguments it
\* was built from, the list of trade P&Ls passed to calculate_all and the
\* dict calculate_all returned; BacktestResults: `backtest_results` is one results
\* object with its _metrics cache, the number of reads of .metrics so far
\* and what the last read returned.
VARIABLES calculator, backtest_results

\* Position used on its own: `position_call` is one Position object (self,
\* None once it is fully closed), the number of calls made on it and the last
\* call with its arguments, the object it was made on and what it returned.
VARIABLES position_call

metricsVars == <<calculator, backtest_results, position_call>>

vars ==
    <<portfolio, last, pc, ops, receiver, engineVars, serviceVars, routeVars,
      metricsVars>>

(***************************************************************************)
(* Bounds and input domains                                                *)
(***************************************************************************)
MaxOps == 2

\* initial_capital values handed to Portfolio.create
InitialCapitals == {10000, 20000}

RawTickers == {"aapl", "MSFT"}

Tickers == {"AAPL", "MSFT"}

Quantities == {50, 100}

PriceLevels == {100, 150}

TradeActions == {"buy", "sell", "short", "cover"}

\* Sequences of builder calls made between TradeBuilder(...) and build().
CostPlans ==
    { << >>,
      << [method |-> "with_commission_bps", arg |-> 5],
         [method |-> "with_slippage_bps", arg |-> 2] >> }

(***************************************************************************)
(* Decimal arithmetic                                                      *)
(***************************************************************************)
Abs(x) == IF x < 0 THEN -x ELSE x

RECURSIVE GCD(_, _)
GCD(a, b) == IF b = 0 THEN a ELSE GCD(b, a % b)

LCM(a, b) == (a \div GCD(a, b)) * b

Dec(n, d) ==
    LET g == GCD(Abs(n), d)
    IN  [n |-> n \div g, d |-> d \div g]

D(i) == [n |-> i, d |-> 1]

Zero == D(0)

DAdd(a, b) ==
    LET l == LCM(a.d, b.d)
    IN  Dec(a.n * (l \div a.d) + b.n * (l \div b.d), l)

DNeg(a) == [n |-> -a.n, d |-> a.d]

DSub(a, b) == DAdd(a, DNeg(b))

DMul(a, b) ==
    LET g1 == GCD(Abs(a.n), b.d)
        g2 == GCD(Abs(b.n), a.d)
    IN  Dec((a.n \div g1) * (b.n \div g2), (a.d \div g2) * (b.d \div g1))

\* b # 0 at every call site (quantities are validated > 0)
DDiv(a, b) ==
    IF b.n > 0 THEN DMul(a, [n |-> b.d, d |-> b.n])
    ELSE DMul(a, [n |-> -b.d, d |-> -b.n])

DLt(a, b) ==
    LET l == LCM(a.d, b.d)
    IN  a.n * (l \div a.d) < b.n * (l \div b.d)

DGt(a, b) == DLt(b, a)

DLe(a, b) == ~DLt(b, a)

DGe(a, b) == ~DLt(a, b)

\* str.upper() on the ticker symbols of the input domain
Upper(s) == IF s = "aapl" THEN "AAPL" ELSE s

(***************************************************************************)
(* Trade and TradeBuilder (trade.py)                                       *)
(***************************************************************************)
gross_value(t) == DMul(t.quantity, t.price)

\* total_cost that leaves the slippage out
total_cost_no_slippage(t) == DAdd(gross_value(t), t.fees)

total_cost(t) == DAdd(DAdd(gross_value(t), t.fees), t.slippage)

\* is_opening that counts the buy only
is_opening_buy_only(t) == t.action = "buy"

is_opening(t) == t.action \in {"buy", "short"}

is_closing(t) == t.action \in {"sell", "cover"}

effective_price(t) ==
    LET cost_per_share == DDiv(DAdd(t.fees, t.slippage), t.quantity)
    IN  IF is_opening(t) THEN DAdd(t.price, cost_per_share)
        ELSE DSub(t.price, cost_per_share)

TradeBuilder(ticker, action, quantity, price) ==
    [ticker |-> ticker, action |-> action, quantity |-> quantity,
     price |-> price, fees |-> Zero, slippage |-> Zero]

with_commission(b, commission) == [b EXCEPT !.fees = DAdd(@, commission)]

\* with_commission_bps taking the rate per 1000 instead of per 10000
with_commission_bps_per_1000(b, bps) ==
    [b EXCEPT !.fees =
        DAdd(@, DDiv(DMul(DMul(b.quantity, b.price), bps), D(1000)))]

with_commission_bps(b, bps) ==
    LET gross == DMul(b.quantity, b.price)
        commission == DDiv(DMul(gross, bps), D(10000))
    IN  [b EXCEPT !.fees = DAdd(@, commission)]

with_slippage_bps(b, bps) ==
    LET gross == DMul(b.quantity, b.price)
        slip == DDiv(DMul(gross, bps), D(10000))
    IN  [b EXCEPT !.slippage = DAdd(@, slip)]

\* Trade(...) as validated by the model: ticker normalised to upper case
build(b) ==
    [ticker |-> Upper(b.ticker), action |-> b.action, quantity |-> b.quantity,
     price |-> b.price, fees |-> b.fees, slippage |-> b.slippage]

RECURSIVE ApplyPlan(_, _)
ApplyPlan(b, plan) ==
    IF plan = << >> THEN b
    ELSE LET c == Head(plan)
             nb == CASE c.method = "with_commission_bps" -> with_commission_bps(b, D(c.arg))
                    [] c.method = "with_slippage_bps" -> with_slippage_bps(b, D(c.arg))
                    [] c.method = "with_commission" -> with_commission(b, D(c.arg))
         IN  ApplyPlan(nb, Tail(plan))

BuildTrade(ticker, action, quantity, price, plan) ==
    build(ApplyPlan(TradeBuilder(ticker, action, D(quantity), D(price)), plan))

NoTrade ==
    [ticker |-> "", action |-> "none", quantity |-> Zero, price |-> Zero,
     fees |-> Zero, slippage |-> Zero]

(***************************************************************************)
(* Position (position.py)                                                  *)
(***************************************************************************)
\* Optional[Position]: None is the empty sequence, a position p is <<p>>
None == << >>

Some(p) == <<p>>

\* Field constraints checked when Position(...) is constructed
PositionValid(p) ==
    /\ DGt(p.quantity, Zero)
    /\ DGt(p.avg_price, Zero)
    /\ DGe(p.current_price, Zero)

market_value(p) == DMul(p.quantity, p.current_price)

unrealized_pnl(p) ==
    IF p.side = "long" THEN DMul(DSub(p.current_price, p.avg_price), p.quantity)
    ELSE DMul(DSub(p.avg_price, p.current_price), p.quantity)

update_price(p, new_price) == [p EXCEPT !.current_price = new_price]

\* add_shares averaging over the old quantity instead of the new one
add_shares_old_quantity(p, quantity, price) ==
    [ticker |-> p.ticker, side |-> p.side,
     quantity |-> DAdd(p.quantity, quantity),
     avg_price |-> DDiv(DAdd(DMul(p.quantity, p.avg_price), DMul(quantity, price)),
                        p.quantity),
     current_price |-> p.current_price]

\* add_shares that marks the position at the price of the added shares
add_shares_marks_at_price(p, quantity, price) ==
    LET new_quantity == DAdd(p.quantity, quantity)
        new_avg_price ==
            DDiv(DAdd(DMul(p.quantity, p.avg_price), DMul(quantity, price)),
                 new_quantity)
    IN  [ticker |-> p.ticker, side |-> p.side, quantity |-> new_quantity,
         avg_price |-> new_avg_price, current_price |-> price]

add_shares(p, quantity, price) ==
    LET new_quantity == DAdd(p.quantity, quantity)
        new_avg_price ==
            DDiv(DAdd(DMul(p.quantity, p.avg_price), DMul(quantity, price)),
                 new_quantity)
    IN  [ticker |-> p.ticker, side |-> p.side, quantity |-> new_quantity,
         avg_price |-> new_avg_price, current_price |-> p.current_price]

\* remove_shares realizing every position as a long one
remove_shares_always_long(p, quantity) ==
    IF DGt(quantity, p.quantity)
    THEN [raised |-> TRUE, remaining |-> None, realized_pnl |-> Zero]
    ELSE LET realized == DMul(DSub(p.current_price, p.avg_price), quantity)
             remaining == DSub(p.quantity, quantity)
         IN  IF remaining = Zero
             THEN [raised |-> FALSE, remaining |-> None, realized_pnl |-> realized]
             ELSE [raised |-> FALSE,
                   remaining |-> Some([ticker |-> p.ticker, side |-> p.side,
                                       quantity |-> remaining,
                                       avg_price |-> p.avg_price,
                                       current_price |-> p.current_price]),
                   realized_pnl |-> realized]

\* remove_shares realizing a long position with the sign of a short one
remove_shares_short_sign(p, quantity) ==
    IF DGt(quantity, p.quantity)
    THEN [raised |-> TRUE, remaining |-> None, realized_pnl |-> Zero]
    ELSE LET realized == DMul(DSub(p.avg_price, p.current_price), quantity)
             remaining == DSub(p.quantity, quantity)
         IN  IF remaining = Zero
             THEN [raised |-> FALSE, remaining |-> None, realized_pnl |-> realized]
             ELSE [raised |-> FALSE,
                   remaining |-> Some([ticker |-> p.ticker, side |-> p.side,
                                       quantity |-> remaining,
                                       avg_price |-> p.avg_price,
                                       current_price |-> p.current_price]),
                   realized_pnl |-> realized]

\* remove_shares that returns a position of quantity 0 instead of None
remove_shares_keeps_zero(p, quantity) ==
    IF DGt(quantity, p.quantity)
    THEN [raised |-> TRUE, remaining |-> None, realized_pnl |-> Zero]
    ELSE [raised |-> FALSE,
          remaining |-> Some([ticker |-> p.ticker, side |-> p.side,
                              quantity |-> DSub(p.quantity, quantity),
                              avg_price |-> p.avg_price,
                              current_price |-> p.current_price]),
          realized_pnl |->
              IF p.side = "long"
              THEN DMul(DSub(p.current_price, p.avg_price), quantity)
              ELSE DMul(DSub(p.avg_price, p.current_price), quantity)]

\* remove_shares that refuses to remove all the shares held
remove_shares_refuses_all(p, quantity) ==
    IF DGe(quantity, p.quantity)
    THEN [raised |-> TRUE, remaining |-> None, realized_pnl |-> Zero]
    ELSE [raised |-> FALSE,
          remaining |-> Some([ticker |-> p.ticker, side |-> p.side,
                              quantity |-> DSub(p.quantity, quantity),
                              avg_price |-> p.avg_price,
                              current_price |-> p.current_price]),
          realized_pnl |->
              IF p.side = "long"
              THEN DMul(DSub(p.current_price, p.avg_price), quantity)
              ELSE DMul(DSub(p.avg_price, p.current_price), quantity)]

remove_shares(p, quantity) ==
    IF DGt(quantity, p.quantity)
    THEN [raised |-> TRUE, remaining |-> None, realized_pnl |-> Zero]
    ELSE LET realized ==
                 IF p.side = "long"
                 THEN DMul(DSub(p.current_price, p.avg_price), quantity)
                 ELSE DMul(DSub(p.avg_price, p.current_price), quantity)
             remaining == DSub(p.quantity, quantity)
         IN  IF remaining = Zero
             THEN [raised |-> FALSE, remaining |-> None, realized_pnl |-> realized]
             ELSE [raised |-> FALSE,
                   remaining |-> Some([ticker |-> p.ticker, side |-> p.side,
                                       quantity |-> remaining,
                                       avg_price |-> p.avg_price,
                                       current_price |-> p.current_price]),
                   realized_pnl |-> realized]

(***************************************************************************)
(* Portfolio (portfolio.py)                                                *)
(***************************************************************************)
EmptyDict == [k \in {} |-> Zero]

DictSet(d, k, v) == [x \in (DOMAIN d) \cup {k} |-> IF x = k THEN v ELSE d[x]]

\* del that leaves the key in place
DictDel_keeps(d, k) == d

DictDel(d, k) == [x \in (DOMAIN d) \ {k} |-> d[x]]

create(initial_capital) ==
    [cash |-> initial_capital, positions |-> EmptyDict,
     realized_pnl |-> Zero, initial_capital |-> initial_capital]

RECURSIVE SumValues(_, _)
\* sum(pos.market_value for pos in positions.values()) over the keys in ks
SumValues(positions, ks) ==
    IF ks = {} THEN Zero
    ELSE LET k == CHOOSE x \in ks : TRUE
         IN  DAdd(market_value(positions[k]), SumValues(positions, ks \ {k}))

\* total_value that adds the long positions only
total_value_long_only(P) ==
    DAdd(P.cash,
         SumValues(P.positions,
                   {t \in DOMAIN P.positions : P.positions[t].side = "long"}))

total_value(P) == DAdd(P.cash, SumValues(P.positions, DOMAIN P.positions))

get_position(P, ticker) ==
    IF Upper(ticker) \in DOMAIN P.positions
    THEN Some(P.positions[Upper(ticker)])
    ELSE None

\* update_prices that keeps only the positions it has a price for
update_prices_priced_only(P, prices) ==
    [P EXCEPT !.positions =
        [t \in (DOMAIN P.positions) \cap (DOMAIN prices) |->
            update_price(P.positions[t], prices[t])]]

update_prices(P, prices) ==
    [P EXCEPT !.positions =
        [t \in DOMAIN P.positions |->
            IF t \in DOMAIN prices
            THEN update_price(P.positions[t], prices[t])
            ELSE P.positions[t]]]

\* Outcome of a call: the returned portfolio, or the error that was raised
Returned(P) == [ok |-> TRUE, error |-> "", portfolio |-> P]

Raised(P, kind) == [ok |-> FALSE, error |-> kind, portfolio |-> P]

\* new_positions = dict(self.positions) made the same object as the
\* receiver's dict
dict_same_object(positions) == [object |-> "self", items |-> positions]

\* new_positions = dict(self.positions): a dict object of its own holding
\* the same items
dict(positions) == [object |-> "new", items |-> positions]

\* the receiver once an operation is over: its fields cannot be assigned
\* (frozen), and its positions dict holds what the operation wrote only if
\* new_positions is that dict; what raises does so before the first write
self_after(P, res) ==
    IF res.ok /\ dict(P.positions).object = "self"
    THEN [P EXCEPT !.positions = res.portfolio.positions]
    ELSE P

execute_buy(P, trade) ==
    LET ticker == Upper(trade.ticker)
        required_cash == total_cost(trade)
        new_cash == DSub(P.cash, required_cash)
        existing_position == get_position(P, ticker)
    IN  IF DGt(required_cash, P.cash) THEN Raised(P, "insufficient_cash")
        ELSE IF existing_position # None /\ existing_position[1].side = "long"
        THEN LET np == add_shares(existing_position[1], trade.quantity,
                                  effective_price(trade))
             IN  IF PositionValid(np)
                 THEN Returned([P EXCEPT !.cash = new_cash,
                                         !.positions = DictSet(@, ticker, np)])
                 ELSE Raised(P, "validation")
        ELSE IF existing_position # None /\ existing_position[1].side = "short"
        THEN Raised(P, "conflicting_side")
        ELSE LET np == [ticker |-> ticker, side |-> "long",
                        quantity |-> trade.quantity,
                        avg_price |-> effective_price(trade),
                        current_price |-> trade.price]
             IN  IF PositionValid(np)
                 THEN Returned([P EXCEPT !.cash = new_cash,
                                         !.positions = DictSet(@, ticker, np)])
                 ELSE Raised(P, "validation")

execute_sell(P, trade) ==
    LET ticker == Upper(trade.ticker)
        position == get_position(P, ticker)
    IN  IF position = None \/ position[1].side # "long"
        THEN Raised(P, "no_position")
        ELSE IF DGt(trade.quantity, position[1].quantity)
        THEN Raised(P, "insufficient_shares")
        ELSE LET r == remove_shares(position[1], trade.quantity)
                 new_positions ==
                     IF r.remaining # None
                     THEN DictSet(P.positions, ticker,
                                  update_price(r.remaining[1], trade.price))
                     ELSE DictDel(P.positions, ticker)
                 proceeds == DSub(DSub(DMul(trade.quantity, trade.price),
                                       trade.fees), trade.slippage)
             IN  IF r.raised THEN Raised(P, "insufficient_shares")
                 ELSE Returned([P EXCEPT !.cash = DAdd(P.cash, proceeds),
                                         !.positions = new_positions,
                                         !.realized_pnl = DAdd(@, r.realized_pnl)])

\* execute_short without the test for an existing long position
execute_short_unchecked(P, trade) ==
    LET ticker == Upper(trade.ticker)
        proceeds == DSub(DSub(DMul(trade.quantity, trade.price),
                              trade.fees), trade.slippage)
        new_cash == DAdd(P.cash, proceeds)
        existing_position == get_position(P, ticker)
    IN  IF existing_position # None /\ existing_position[1].side = "short"
        THEN Returned([P EXCEPT !.cash = new_cash,
                                !.positions = DictSet(@, ticker,
                                    add_shares(existing_position[1], trade.quantity,
                                               effective_price(trade)))])
        ELSE Returned([P EXCEPT !.cash = new_cash,
                                !.positions = DictSet(@, ticker,
                                    [ticker |-> ticker, side |-> "short",
                                     quantity |-> trade.quantity,
                                     avg_price |-> effective_price(trade),
                                     current_price |-> trade.price])])

execute_short(P, trade) ==
    LET ticker == Upper(trade.ticker)
        proceeds == DSub(DSub(DMul(trade.quantity, trade.price),
                              trade.fees), trade.slippage)
        new_cash == DAdd(P.cash, proceeds)
        existing_position == get_position(P, ticker)
    IN  IF existing_position # None /\ existing_position[1].side = "short"
        THEN LET np == add_shares(existing_position[1], trade.quantity,
                                  effective_price(trade))
             IN  IF PositionValid(np)
                 THEN Returned([P EXCEPT !.cash = new_cash,
                                         !.positions = DictSet(@, ticker, np)])
                 ELSE Raised(P, "validation")
        ELSE IF existing_position # None /\ existing_position[1].side = "long"
        THEN Raised(P, "conflicting_side")
        ELSE LET np == [ticker |-> ticker, side |-> "short",
                        quantity |-> trade.quantity,
                        avg_price |-> effective_price(trade),
                        current_price |-> trade.price]
             IN  IF PositionValid(np)
                 THEN Returned([P EXCEPT !.cash = new_cash,
                                         !.positions = DictSet(@, ticker, np)])
                 ELSE Raised(P, "validation")

\* execute_cover testing cash before the held quantity
execute_cover_cash_first(P, trade) ==
    LET ticker == Upper(trade.ticker)
        position == get_position(P, ticker)
        cost_to_cover == total_cost(trade)
    IN  IF position = None \/ position[1].side # "short"
        THEN Raised(P, "no_position")
        ELSE IF DGt(cost_to_cover, P.cash)
        THEN Raised(P, "insufficient_cash")
        ELSE IF DGt(trade.quantity, position[1].quantity)
        THEN Raised(P, "insufficient_shares")
        ELSE LET r == remove_shares(position[1], trade.quantity)
                 new_positions ==
                     IF r.remaining # None
                     THEN DictSet(P.positions, ticker,
                                  update_price(r.remaining[1], trade.price))
                     ELSE DictDel(P.positions, ticker)
             IN  Returned([P EXCEPT !.cash = DSub(P.cash, cost_to_cover),
                                    !.positions = new_positions,
                                    !.realized_pnl = DAdd(@, r.realized_pnl)])

execute_cover(P, trade) ==
    LET ticker == Upper(trade.ticker)
        position == get_position(P, ticker)
        cost_to_cover == total_cost(trade)
    IN  IF position = None \/ position[1].side # "short"
        THEN Raised(P, "no_position")
        ELSE IF DGt(trade.quantity, position[1].quantity)
        THEN Raised(P, "insufficient_shares")
        ELSE IF DGt(cost_to_cover, P.cash)
        THEN Raised(P, "insufficient_cash")
        ELSE LET r == remove_shares(position[1], trade.quantity)
                 new_positions ==
                     IF r.remaining # None
                     THEN DictSet(P.positions, ticker,
                                  update_price(r.remaining[1], trade.price))
                     ELSE DictDel(P.positions, ticker)
             IN  IF r.raised THEN Raised(P, "insufficient_shares")
                 ELSE Returned([P EXCEPT !.cash = DSub(P.cash, cost_to_cover),
                                         !.positions = new_positions,
                                         !.realized_pnl = DAdd(@, r.realized_pnl)])

apply_trade(P, trade) ==
    CASE trade.action = "buy" -> execute_buy(P, trade)
      [] trade.action = "sell" -> execute_sell(P, trade)
      [] trade.action = "short" -> execute_short(P, trade)
      [] trade.action = "cover" -> execute_cover(P, trade)
      [] OTHER -> Raised(P, "unknown_action")

\* can_execute_trade without the cash test of the buy branch
can_execute_trade_no_buy_cash(P, trade) ==
    LET ticker == Upper(trade.ticker)
        position == get_position(P, ticker)
    IN  CASE trade.action = "buy" ->
               IF position # None /\ position[1].side = "short"
               THEN <<FALSE, "conflicting_side">>
               ELSE <<TRUE, "">>
          [] trade.action = "sell" ->
               IF position = None \/ position[1].side # "long"
               THEN <<FALSE, "no_position">>
               ELSE IF DGt(trade.quantity, position[1].quantity)
               THEN <<FALSE, "insufficient_shares">>
               ELSE <<TRUE, "">>
          [] trade.action = "short" ->
               IF position # None /\ position[1].side = "long"
               THEN <<FALSE, "conflicting_side">>
               ELSE <<TRUE, "">>
          [] trade.action = "cover" ->
               IF position = None \/ position[1].side # "short"
               THEN <<FALSE, "no_position">>
               ELSE IF DGt(trade.quantity, position[1].quantity)
               THEN <<FALSE, "insufficient_shares">>
               ELSE IF DGt(total_cost(trade), P.cash)
               THEN <<FALSE, "insufficient_cash">>
               ELSE <<TRUE, "">>
          [] OTHER -> <<TRUE, "">>

\* (can_execute, reason); the reason is kept as the kind of refusal
can_execute_trade(P, trade) ==
    LET ticker == Upper(trade.ticker)
        position == get_position(P, ticker)
    IN  CASE trade.action = "buy" ->
               IF DGt(total_cost(trade), P.cash)
               THEN <<FALSE, "insufficient_cash">>
               ELSE IF position # None /\ position[1].side = "short"
               THEN <<FALSE, "conflicting_side">>
               ELSE <<TRUE, "">>
          [] trade.action = "sell" ->
               IF position = None \/ position[1].side # "long"
               THEN <<FALSE, "no_position">>
               ELSE IF DGt(trade.quantity, position[1].quantity)
               THEN <<FALSE, "insufficient_shares">>
               ELSE <<TRUE, "">>
          [] trade.action = "short" ->
               IF position # None /\ position[1].side = "long"
               THEN <<FALSE, "conflicting_side">>
               ELSE <<TRUE, "">>
          [] trade.action = "cover" ->
               IF position = None \/ position[1].side # "short"
               THEN <<FALSE, "no_position">>
               ELSE IF DGt(trade.quantity, position[1].quantity)
               THEN <<FALSE, "insufficient_shares">>
               ELSE IF DGt(total_cost(trade), P.cash)
               THEN <<FALSE, "insufficient_cash">>
               ELSE <<TRUE, "">>
          [] OTHER -> <<TRUE, "">>

(***************************************************************************)
(* State machine: a portfolio created once and then driven by one caller   *)
(* through its public operations.  `last` records the most recent call:    *)
(* its arguments, the receiver it was made on and what it returned or      *)
(* raised.  `pc` is the caller's position: "ready" between calls,          *)
(* "checked" after can_execute_trade (the caller then applies the trade    *)
(* when the answer was true and skips it otherwise, as the engine loop     *)
(* does), "raised" once an error has propagated out of apply_trade, which  *)
(* no caller in the repository catches.                                    *)
(***************************************************************************)
PriceMaps ==
    UNION { [S -> {D(p) : p \in PriceLevels}] : S \in SUBSET Tickers }

TradeInputs ==
    { BuildTrade(tk, a, q, p, plan) :
        tk \in RawTickers, a \in TradeActions, q \in Quantities,
        p \in PriceLevels, plan \in CostPlans }

Call(op, trade, prices, pre, ok, error) ==
    [op |-> op, trade |-> trade, prices |-> prices, pre |-> pre,
     ok |-> ok, error |-> error]

\* no engine exists
NoEngine ==
    /\ market_data = [tickers |-> << >>, prices |-> {}, end_date |-> 0]
    /\ config = [initial_capital |-> 0, commission_bps |-> 0,
                 slippage_bps |-> 0, rebalance_frequency |-> 1]
    /\ trading_days = << >>
    /\ day_index = 0
    /\ point_in_time_data = market_data
    /\ current_prices = EmptyDict
    /\ signals = << >>
    /\ executed_trades = << >>
    /\ daily_snapshots = << >>
    /\ epc = "none"
    /\ now = 0
    /\ calls = << >>
    /\ decisions = << >>
    /\ first = None
    /\ other = None

NotCalled ==
    [pc |-> "none", hook |-> FALSE, events |-> << >>, market_data |-> None,
     results_dict |-> None, outcome |-> "none", error |-> ""]

\* no call of the service is under way
NoService ==
    /\ request = [strategy_name |-> "", tickers |-> << >>, start_date |-> 1,
                  end_date |-> 1, rebalance_frequency |-> 1, data |-> "",
                  engine |-> ""]
    /\ progress_callback = [at |-> "", does |-> "returns"]
    /\ service = NotCalled
    /\ plain = None

\* no request is being streamed
NoStream ==
    /\ route = [pc |-> "none", iso |-> TRUE, task |-> "none", consumed |-> 0,
                tail |-> << >>, stream |-> << >>]
    /\ store = << >>

\* no request is being streamed, no calculator and no results object exist
NoRoute ==
    /\ NoStream
    /\ calculator = None
    /\ backtest_results = None
    /\ position_call = None

Init ==
    /\ \E c \in InitialCapitals :
          /\ portfolio = create(D(c))
          /\ last = Call("create", NoTrade, EmptyDict, create(D(c)), TRUE, "")
          /\ receiver = create(D(c))
    /\ pc = "ready"
    /\ ops = 0
    /\ NoEngine
    /\ NoService
    /\ NoRoute

\* portfolio = portfolio.apply_trade(trade)
ApplyTrade ==
    /\ pc = "ready"
    /\ ops < MaxOps
    /\ \E trade \in TradeInputs :
          LET res == apply_trade(portfolio, trade)
          IN  /\ portfolio' = res.portfolio
              /\ receiver' = self_after(portfolio, res)
              /\ last' = Call("apply_trade", trade, EmptyDict, portfolio,
                              res.ok, res.error)
              /\ pc' = IF res.ok THEN "ready" ELSE "raised"
    /\ ops' = ops + 1
    /\ UNCHANGED <<engineVars, serviceVars, routeVars, metricsVars>>

\* can_execute, reason = portfolio.can_execute_trade(trade)
CanExecuteTrade ==
    /\ pc = "ready"
    /\ ops < MaxOps
    /\ \E trade \in TradeInputs :
          LET res == can_execute_trade(portfolio, trade)
          IN  last' = Call("can_execute_trade", trade, EmptyDict, portfolio,
                           res[1], res[2])
    /\ pc' = "checked"
    /\ UNCHANGED <<portfolio, ops, receiver>>
    /\ UNCHANGED <<engineVars, serviceVars, routeVars, metricsVars>>

\* if can_execute: portfolio = portfolio.apply_trade(trade)
ExecuteChecked ==
    /\ pc = "checked"
    /\ last.ok
    /\ LET res == apply_trade(portfolio, last.trade)
       IN  /\ portfolio' = res.portfolio
           /\ receiver' = self_after(portfolio, res)
           /\ last' = Call("apply_trade", last.trade, EmptyDict, portfolio,
                           res.ok, res.error)
           /\ pc' = IF res.ok THEN "ready" ELSE "raised"
    /\ ops' = ops + 1
    /\ UNCHANGED <<engineVars, serviceVars, routeVars, metricsVars>>

\* can_execute was false: the trade is dropped and the caller goes on
SkipTrade ==
    /\ pc = "checked"
    /\ ~last.ok
    /\ last' = Call("skip", NoTrade, EmptyDict, portfolio, TRUE, "")
    /\ pc' = "ready"
    /\ UNCHANGED <<portfolio, ops, receiver>>
    /\ UNCHANGED <<engineVars, serviceVars, routeVars, metricsVars>>

\* portfolio = portfolio.update_prices(current_prices)
UpdatePrices ==
    /\ pc = "ready"
    /\ ops < MaxOps
    /\ \E prices \in PriceMaps :
          /\ portfolio' = update_prices(portfolio, prices)
          /\ last' = Call("update_prices", NoTrade, prices, portfolio, TRUE, "")
    /\ receiver' = portfolio
    /\ pc' = "ready"
    /\ ops' = ops + 1
    /\ UNCHANGED <<engineVars, serviceVars, routeVars, metricsVars>>

Next ==
    \/ ApplyTrade
    \/ CanExecuteTrade
    \/ ExecuteChecked
    \/ SkipTrade
    \/ UpdatePrices

Spec == Init /\ [][Next]_vars

\* The caller that checks every trade first, with trades of any cost: fees
\* is any Decimal >= 0 (trade.py 42), and with_commission adds a flat amount
\* that does not depend on the trade's value.
FlatCommissions == {20000}

AnyCostPlans ==
    CostPlans \cup
        { << [method |-> "with_commission", arg |-> c] >> : c \in FlatCommissions }

AnyCostTrades ==
    { BuildTrade(tk, a, q, p, plan) :
        tk \in RawTickers, a \in TradeActions, q \in Quantities,
        p \in PriceLevels, plan \in AnyCostPlans }

\* can_execute, reason = portfolio.can_execute_trade(trade)
CanExecuteAnyTrade ==
    /\ pc = "ready"
    /\ ops < MaxOps
    /\ \E trade \in AnyCostTrades :
          LET res == can_execute_trade(portfolio, trade)
          IN  last' = Call("can_execute_trade", trade, EmptyDict, portfolio,
                           res[1], res[2])
    /\ pc' = "checked"
    /\ UNCHANGED <<portfolio, ops, receiver>>
    /\ UNCHANGED <<engineVars, serviceVars, routeVars, metricsVars>>

NextChecked ==
    \/ CanExecuteAnyTrade
    \/ ExecuteChecked
    \/ SkipTrade

SpecChecked == Init /\ [][NextChecked]_vars

(***************************************************************************)
(* BacktestEngine (backtesting/engine.py) over MarketData                  *)
(* (models/market_data.py).  The price frame is the set of its rows, one   *)
(* row per ticker and date; dates are day numbers.  The strategy is a      *)
(* collaborator: whatever list of signals it returns is an input of the    *)
(* run.  Signal is not part of the sources at hand and follows its         *)
(* description: ticker, action, quantity and the predicate is_actionable.  *)
(***************************************************************************)
MaxDays == 2

\* signals the strategy returns over one run
MaxSignals == 3

MaxClock == 1

Dates == 1..MaxDays

RebalanceFrequencies == {1, 2}

\* BacktestConfig: the default cost rates, a capital two round lots exhaust
BacktestConfig(rebalance_frequency) ==
    [initial_capital |-> 20000, commission_bps |-> 5, slippage_bps |-> 2,
     rebalance_frequency |-> rebalance_frequency]

Configs == { BacktestConfig(f) : f \in RebalanceFrequencies }

\* closing prices alternate from one date to the next, so that a price
\* taken from another day is a different price
ClosePrice(ticker, d) ==
    IF (ticker = "AAPL") = (d % 2 = 1) THEN 100 ELSE 150

Row(ticker, d) == [ticker |-> ticker, date |-> d, close |-> D(ClosePrice(ticker, d))]

MarketData(rows) ==
    [tickers |-> <<"AAPL", "MSFT">>, prices |-> rows, end_date |-> MaxDays]

\* every ticker quoted on every date; AAPL quoted on the first date only and
\* MSFT on the last only; no rows at all
MarketDatas ==
    { MarketData({ Row(t, d) : t \in Tickers, d \in Dates }),
      MarketData({ Row("AAPL", 1), Row("MSFT", MaxDays) }),
      MarketData({}) }

Signal(ticker, action, quantity) ==
    [ticker |-> ticker, action |-> action, quantity |-> D(quantity)]

is_actionable(signal) == signal.action # "hold"

Signals ==
    { Signal("AAPL", "buy", 100), Signal("AAPL", "sell", 100),
      Signal("MSFT", "short", 50), Signal("MSFT", "cover", 50),
      Signal("AAPL", "hold", 100) }

\* what generate_signals may return: a list of at most n signals
SignalLists(n) == UNION { [1..k -> Signals] : k \in 0..n }

Range(seq) == { seq[k] : k \in DOMAIN seq }

get_prices(md, ticker) == { r \in md.prices : r.ticker = Upper(ticker) }

\* as_of that keeps every row
as_of_unfiltered(md, as_of_date) == [md EXCEPT !.end_date = as_of_date]

as_of(md, as_of_date) ==
    [md EXCEPT !.prices = { r \in @ : r.date <= as_of_date },
               !.end_date = as_of_date]

RECURSIVE sorted_descending(_)
\* sorted that puts the latest date first
sorted_descending(S) ==
    IF S = {} THEN << >>
    ELSE LET m == CHOOSE x \in S : \A y \in S : x >= y
         IN  <<m>> \o sorted_descending(S \ {m})

RECURSIVE sorted(_)
sorted(S) ==
    IF S = {} THEN << >>
    ELSE LET m == CHOOSE x \in S : \A y \in S : x <= y
         IN  <<m>> \o sorted(S \ {m})

_get_trading_days(md) ==
    sorted(UNION { { r.date : r \in get_prices(md, t) } : t \in Range(md.tickers) })

_get_current_prices(md, current_date) ==
    LET quoted == { t \in Range(md.tickers) :
                      \E r \in get_prices(md, t) : r.date = current_date }
    IN  [t \in quoted |->
            (CHOOSE r \in get_prices(md, t) : r.date = current_date).close]

\* Trade.timestamp: default_factory=datetime.now, which build() leaves to act
with_timestamp(trade, clock) ==
    [ticker |-> trade.ticker, action |-> trade.action,
     quantity |-> trade.quantity, price |-> trade.price,
     fees |-> trade.fees, slippage |-> trade.slippage, timestamp |-> clock]

\* None, or the trade built from the signal at the day's price
_signal_to_trade(signal, prices, cfg, clock) ==
    IF signal.ticker \notin DOMAIN prices THEN None
    ELSE IF signal.action \notin {"buy", "sell", "short", "cover"} THEN None
    ELSE Some(with_timestamp(
            build(with_slippage_bps(
                    with_commission_bps(
                        TradeBuilder(signal.ticker, signal.action,
                                     signal.quantity, prices[signal.ticker]),
                        D(cfg.commission_bps)),
                    D(cfg.slippage_bps))),
            clock))

long_exposure(P) ==
    SumValues(P.positions,
              {t \in DOMAIN P.positions : P.positions[t].side = "long"})

short_exposure(P) ==
    SumValues(P.positions,
              {t \in DOMAIN P.positions : P.positions[t].side = "short"})

RECURSIVE SumUnrealized(_, _)
SumUnrealized(positions, ks) ==
    IF ks = {} THEN Zero
    ELSE LET k == CHOOSE x \in ks : TRUE
         IN  DAdd(unrealized_pnl(positions[k]), SumUnrealized(positions, ks \ {k}))

portfolio_unrealized_pnl(P) == SumUnrealized(P.positions, DOMAIN P.positions)

\* float(): binary rounding, half to even.  binary64 keeps 52 bits after
\* the leading one; the model keeps FloatBits bits below the unit.
FloatBits == 10

float(x) ==
    LET scale == 2 ^ FloatBits
        whole == x.n \div x.d
        scaled == (x.n % x.d) * scale
        low == scaled \div x.d
        rest == scaled % x.d
        up == 2 * rest > x.d \/ (2 * rest = x.d /\ low % 2 = 1)
    IN  Dec(whole * scale + (IF up THEN low + 1 ELSE low), scale)

snapshot(current_date, P) ==
    [date |-> current_date,
     total_value |-> float(total_value(P)),
     cash |-> float(P.cash),
     positions_value |-> float(DAdd(long_exposure(P), short_exposure(P))),
     num_positions |-> Cardinality(DOMAIN P.positions),
     realized_pnl |-> float(P.realized_pnl),
     unrealized_pnl |-> float(portfolio_unrealized_pnl(P))]

current_date == trading_days[day_index + 1]

\* a rebalance test that passes on every day
is_rebalance_day_always(index, cfg) == TRUE

\* i % self.config.rebalance_frequency == 0
is_rebalance_day(index, cfg) == index % cfg.rebalance_frequency = 0

\* an earlier run's record of what the strategy returned for these arguments
Replayed ==
    IF first = None THEN {}
    ELSE { c \in Range(first[1].calls) :
             /\ c.market_data = point_in_time_data
             /\ c.portfolio = portfolio
             /\ c.current_date = current_date }

\* the same strategy returns the same signals for the same arguments; every
\* signal returned so far has been through the loop and is in `decisions`
StrategyOutputs ==
    IF Replayed = {} THEN SignalLists(MaxSignals - Len(decisions))
    ELSE { c.signals : c \in Replayed }

\* BacktestEngine(strategy, market_data, config)
Construct(md, cfg) ==
    /\ market_data' = md
    /\ config' = cfg
    /\ portfolio' = create(D(cfg.initial_capital))
    /\ daily_snapshots' = << >>
    /\ executed_trades' = << >>
    /\ trading_days' = << >>
    /\ day_index' = 0
    /\ point_in_time_data' = md
    /\ current_prices' = EmptyDict
    /\ signals' = << >>
    /\ calls' = << >>
    /\ decisions' = << >>
    /\ epc' = "constructed"

InitEngine ==
    /\ \E md \in MarketDatas, cfg \in Configs :
          /\ market_data = md
          /\ config = cfg
          /\ portfolio = create(D(cfg.initial_capital))
          /\ receiver = create(D(cfg.initial_capital))
          /\ point_in_time_data = md
          /\ last = Call("create", NoTrade, EmptyDict,
                         create(D(cfg.initial_capital)), TRUE, "")
    /\ daily_snapshots = << >>
    /\ executed_trades = << >>
    /\ trading_days = << >>
    /\ day_index = 0
    /\ current_prices = EmptyDict
    /\ signals = << >>
    /\ calls = << >>
    /\ decisions = << >>
    /\ epc = "constructed"
    /\ now = 0
    /\ first = None
    /\ other = None
    /\ pc = "ready"
    /\ ops = 0
    /\ NoService
    /\ NoRoute

\* run() without the test of the day list
Run_unguarded ==
    /\ epc = "constructed"
    /\ trading_days' = _get_trading_days(market_data)
    /\ day_index' = 0
    /\ epc' = "day"
    /\ UNCHANGED <<portfolio, last, pc, ops, market_data, config,
                   point_in_time_data, current_prices, signals,
                   executed_trades, daily_snapshots, now, calls, decisions,
                   first>>
    /\ UNCHANGED <<serviceVars, routeVars, metricsVars, receiver, other>>

\* run(): trading_days = self._get_trading_days(), raise when there is none
Run ==
    /\ epc = "constructed"
    /\ trading_days' = _get_trading_days(market_data)
    /\ day_index' = 0
    /\ epc' = IF _get_trading_days(market_data) = << >> THEN "raised" ELSE "day"
    /\ UNCHANGED <<portfolio, last, pc, ops, market_data, config,
                   point_in_time_data, current_prices, signals,
                   executed_trades, daily_snapshots, now, calls, decisions,
                   first>>
    /\ UNCHANGED <<serviceVars, routeVars, metricsVars, receiver, other>>

\* loop head that leaves the positions at their last marks
BeginDay_stale_marks ==
    /\ epc = "day"
    /\ day_index < Len(trading_days)
    /\ LET view == as_of(market_data, current_date)
           prices == _get_current_prices(view, current_date)
       IN  /\ point_in_time_data' = view
           /\ current_prices' = prices
           /\ portfolio' = portfolio
           /\ last' = Call("update_prices", NoTrade, prices, portfolio, TRUE, "")
    /\ epc' = IF is_rebalance_day(day_index, config) THEN "rebalance"
              ELSE "snapshot"
    /\ UNCHANGED <<pc, ops, market_data, config, trading_days, day_index, signals,
                   executed_trades, daily_snapshots, now, calls, decisions,
                   first>>
    /\ UNCHANGED <<serviceVars, routeVars, metricsVars, receiver, other>>

\* loop head and the day's price update
BeginDay ==
    /\ epc = "day"
    /\ day_index < Len(trading_days)
    /\ LET view == as_of(market_data, current_date)
           prices == _get_current_prices(view, current_date)
       IN  /\ point_in_time_data' = view
           /\ current_prices' = prices
           /\ portfolio' = update_prices(portfolio, prices)
           /\ last' = Call("update_prices", NoTrade, prices, portfolio, TRUE, "")
    /\ epc' = IF is_rebalance_day(day_index, config) THEN "rebalance"
              ELSE "snapshot"
    /\ UNCHANGED <<pc, ops, market_data, config, trading_days, day_index, signals,
                   executed_trades, daily_snapshots, now, calls, decisions,
                   first>>
    /\ UNCHANGED <<serviceVars, routeVars, metricsVars, receiver, other>>

\* signals = self.strategy.generate_signals(...)
GenerateSignals ==
    /\ epc = "rebalance"
    /\ \E returned \in StrategyOutputs :
          /\ signals' = returned
          /\ calls' = Append(calls,
                 [i |-> day_index, current_date |-> current_date,
                  market_data |-> point_in_time_data,
                  portfolio |-> portfolio, signals |-> returned])
          /\ epc' = IF returned = << >> THEN "snapshot" ELSE "signals"
    /\ UNCHANGED <<portfolio, last, pc, ops, market_data, config,
                   trading_days, day_index, point_in_time_data, current_prices,
                   executed_trades, daily_snapshots, now, decisions, first>>
    /\ UNCHANGED <<serviceVars, routeVars, metricsVars, receiver, other>>

\* generate_signals raises: nothing in run() catches it
StrategyRaises ==
    /\ epc = "rebalance"
    /\ first = None
    /\ epc' = "raised"
    /\ UNCHANGED <<portfolio, last, pc, ops, market_data, config,
                   trading_days, day_index, point_in_time_data, current_prices,
                   signals, executed_trades, daily_snapshots, now, calls,
                   decisions, first>>
    /\ UNCHANGED <<serviceVars, routeVars, metricsVars, receiver, other>>

\* what one pass of the signal loop did: the trade built (NoTrade when
\* none was), the portfolio before and after, what can_execute_trade
\* answered, how often apply_trade changed the engine's portfolio, and
\* whether an error left the loop
Decision(signal, trade, pre, can_execute, applications, post, raised) ==
    [i |-> day_index, signal |-> signal, trade |-> trade, pre |-> pre,
     can_execute |-> can_execute, applications |-> applications,
     post |-> post, raised |-> raised]

\* one pass of `for signal in signals`
ProcessSignal ==
    /\ epc = "signals"
    /\ signals # << >>
    /\ LET signal == Head(signals)
           built == IF is_actionable(signal)
                    THEN _signal_to_trade(signal, current_prices, config, now)
                    ELSE None
           trade == IF built = None THEN NoTrade ELSE built[1]
           res == IF built = None THEN <<FALSE, "">>
                  ELSE can_execute_trade(portfolio, trade)
           out == apply_trade(portfolio, trade)
           more == IF Tail(signals) = << >> THEN "snapshot" ELSE "signals"
       IN  /\ last' = IF built = None THEN last
                      ELSE Call("can_execute_trade", trade, current_prices,
                                portfolio, res[1], res[2])
           /\ IF ~res[1]
              THEN /\ decisions' = Append(decisions,
                          Decision(signal, trade, portfolio, FALSE, 0,
                                   portfolio, FALSE))
                   /\ epc' = more
                   /\ UNCHANGED <<portfolio, executed_trades>>
              ELSE IF out.ok
              THEN /\ portfolio' = out.portfolio
                   /\ executed_trades' = Append(executed_trades, trade)
                   /\ decisions' = Append(decisions,
                          Decision(signal, trade, portfolio, TRUE, 1,
                                   out.portfolio, FALSE))
                   /\ epc' = more
              ELSE /\ decisions' = Append(decisions,
                          Decision(signal, trade, portfolio, TRUE, 0,
                                   portfolio, TRUE))
                   /\ epc' = "raised"
                   /\ UNCHANGED <<portfolio, executed_trades>>
    /\ signals' = Tail(signals)
    /\ UNCHANGED <<pc, ops, market_data, config, trading_days, day_index,
                   point_in_time_data, current_prices, daily_snapshots, now,
                   calls, first>>
    /\ UNCHANGED <<serviceVars, routeVars, metricsVars, receiver, other>>

\* self.daily_snapshots.append({...}) and the step to the next day
SaveSnapshot ==
    /\ epc = "snapshot"
    /\ daily_snapshots' = Append(daily_snapshots, snapshot(current_date, portfolio))
    /\ day_index' = day_index + 1
    /\ epc' = "day"
    /\ UNCHANGED <<portfolio, last, pc, ops, market_data, config,
                   trading_days, point_in_time_data, current_prices, signals,
                   executed_trades, now, calls, decisions, first>>
    /\ UNCHANGED <<serviceVars, routeVars, metricsVars, receiver, other>>

\* the day list is exhausted: return BacktestResults(...)
Return ==
    /\ epc = "day"
    /\ day_index = Len(trading_days)
    /\ epc' = "returned"
    /\ UNCHANGED <<portfolio, last, pc, ops, market_data, config,
                   trading_days, day_index, point_in_time_data, current_prices,
                   signals, executed_trades, daily_snapshots, now, calls,
                   decisions, first>>
    /\ UNCHANGED <<serviceVars, routeVars, metricsVars, receiver, other>>

NextEngine ==
    \/ Run
    \/ BeginDay
    \/ GenerateSignals
    \/ StrategyRaises
    \/ ProcessSignal
    \/ SaveSnapshot
    \/ Return

SpecEngine == InitEngine /\ [][NextEngine]_vars

\* the wall clock advances.  Only the signal loop reads it (build() stamps
\* the trade), so an advance at any other moment shows as an advance just
\* before the next pass of the loop.
Tick ==
    /\ epc = "signals"
    /\ now < MaxClock
    /\ now' = now + 1
    /\ UNCHANGED <<portfolio, last, pc, ops, market_data, config,
                   trading_days, day_index, point_in_time_data, current_prices,
                   signals, executed_trades, daily_snapshots, epc, calls,
                   decisions, first>>
    /\ UNCHANGED <<serviceVars, routeVars, metricsVars, receiver, other>>

\* a second engine over the same strategy, market data and configuration
Rerun ==
    /\ epc = "returned"
    /\ first = None
    /\ other = None
    /\ first' = Some([daily_snapshots |-> daily_snapshots,
                      executed_trades |-> executed_trades,
                      portfolio |-> portfolio, calls |-> calls])
    /\ Construct(market_data, config)
    /\ last' = Call("create", NoTrade, EmptyDict,
                    create(D(config.initial_capital)), TRUE, "")
    /\ UNCHANGED <<pc, ops, now>>
    /\ UNCHANGED <<serviceVars, routeVars, metricsVars, receiver, other>>

NextReplay ==
    \/ Run
    \/ BeginDay
    \/ GenerateSignals
    \/ StrategyRaises
    \/ ProcessSignal
    \/ SaveSnapshot
    \/ Return
    \/ Tick
    \/ Rerun

SpecReplay == InitEngine /\ [][NextReplay]_vars

(***************************************************************************)
(* run() called again on the same engine.  __init__ alone creates the      *)
(* portfolio and the two history lists (engine.py 67-73); run() starts     *)
(* from whatever self.portfolio, self.daily_snapshots and                  *)
(* self.executed_trades hold.  `first` keeps what the first call returned. *)
(* The wall clock stands still, so that the two calls differ by nothing    *)
(* but the state the engine is in.                                         *)
(***************************************************************************)
\* the second `await engine.run()`: up to the loop
RunAgain ==
    /\ epc = "returned"
    /\ first = None
    /\ first' = Some([daily_snapshots |-> daily_snapshots,
                      executed_trades |-> executed_trades,
                      portfolio |-> portfolio, calls |-> calls])
    /\ trading_days' = _get_trading_days(market_data)
    /\ day_index' = 0
    /\ epc' = IF _get_trading_days(market_data) = << >> THEN "raised" ELSE "day"
    /\ UNCHANGED <<portfolio, last, pc, ops, market_data, config,
                   point_in_time_data, current_prices, signals,
                   executed_trades, daily_snapshots, now, calls, decisions>>
    /\ UNCHANGED <<serviceVars, routeVars, metricsVars, receiver, other>>

NextRunAgain ==
    \/ Run
    \/ BeginDay
    \/ GenerateSignals
    \/ StrategyRaises
    \/ ProcessSignal
    \/ SaveSnapshot
    \/ Return
    \/ RunAgain

SpecRunAgain == InitEngine /\ [][NextRunAgain]_vars

(***************************************************************************)
(* Two engines at once.  After a run on its own, two engines are built     *)
(* over the same strategy, market data and configuration and their run()   *)
(* calls interleave at every step: the variables hold the engine that is   *)
(* executing, `other` the one that is not.  The wall clock is the one      *)
(* thing both read.                                                        *)
(***************************************************************************)
\* the fields and locals of the engine that is executing
Executing ==
    [market_data |-> market_data, config |-> config, portfolio |-> portfolio,
     trading_days |-> trading_days, day_index |-> day_index,
     point_in_time_data |-> point_in_time_data,
     current_prices |-> current_prices, signals |-> signals,
     executed_trades |-> executed_trades,
     daily_snapshots |-> daily_snapshots, epc |-> epc, calls |-> calls,
     decisions |-> decisions, last |-> last]

\* BacktestEngine(strategy, market_data, config), not yet run
Constructed(md, cfg) ==
    [market_data |-> md, config |-> cfg,
     portfolio |-> create(D(cfg.initial_capital)),
     trading_days |-> << >>, day_index |-> 0, point_in_time_data |-> md,
     current_prices |-> EmptyDict, signals |-> << >>,
     executed_trades |-> << >>, daily_snapshots |-> << >>,
     epc |-> "constructed", calls |-> << >>, decisions |-> << >>,
     last |-> Call("create", NoTrade, EmptyDict,
                   create(D(cfg.initial_capital)), TRUE, "")]

\* two engines over the inputs of the run that has just returned
RunTwo ==
    /\ epc = "returned"
    /\ first = None
    /\ other = None
    /\ first' = Some([daily_snapshots |-> daily_snapshots,
                      executed_trades |-> executed_trades,
                      portfolio |-> portfolio, calls |-> calls])
    /\ Construct(market_data, config)
    /\ last' = Call("create", NoTrade, EmptyDict,
                    create(D(config.initial_capital)), TRUE, "")
    /\ other' = Some(Constructed(market_data, config))
    /\ UNCHANGED <<pc, ops, now>>
    /\ UNCHANGED <<serviceVars, routeVars, metricsVars, receiver>>

\* the executing engine is suspended and the other one goes on
Switch ==
    /\ other # None
    /\ other[1].epc # "returned"
    /\ other' = Some(Executing)
    /\ market_data' = other[1].market_data
    /\ config' = other[1].config
    /\ portfolio' = other[1].portfolio
    /\ trading_days' = other[1].trading_days
    /\ day_index' = other[1].day_index
    /\ point_in_time_data' = other[1].point_in_time_data
    /\ current_prices' = other[1].current_prices
    /\ signals' = other[1].signals
    /\ executed_trades' = other[1].executed_trades
    /\ daily_snapshots' = other[1].daily_snapshots
    /\ epc' = other[1].epc
    /\ calls' = other[1].calls
    /\ decisions' = other[1].decisions
    /\ last' = other[1].last
    /\ UNCHANGED <<pc, ops, now, first>>
    /\ UNCHANGED <<serviceVars, routeVars, metricsVars, receiver>>

NextConcurrent ==
    \/ Run
    \/ BeginDay
    \/ GenerateSignals
    \/ StrategyRaises
    \/ ProcessSignal
    \/ SaveSnapshot
    \/ Return
    \/ Tick
    \/ RunTwo
    \/ Switch

\* every date quoted, the strategy consulted on the first day only
InitConcurrent ==
    /\ InitEngine
    /\ market_data = MarketData({ Row(t, d) : t \in Tickers, d \in Dates })
    /\ config.rebalance_frequency = MaxDays

SpecConcurrent == InitConcurrent /\ [][NextConcurrent]_vars

(***************************************************************************)
(* BacktestService.run_backtest (routes/backtest_service.py).  One step    *)
(* per stretch of code between two awaits.  The data provider, the         *)
(* strategy and the engine are collaborators here: whether the data loads  *)
(* and what engine.run() returns or raises are inputs of the call.  The    *)
(* hook is any awaitable the caller passes: it may return, raise, never    *)
(* return, or write to the dict it is handed.  The same arguments are      *)
(* served twice, first without a hook and then with one.                   *)
(***************************************************************************)
AVAILABLE_STRATEGIES == {"value_moat", "trend_following", "multi_factor"}

Stages ==
    <<"loading_data", "initializing", "running", "computing_metrics",
      "complete">>

\* the "progress" value sent with each stage
StageProgress ==
    [loading_data |-> Dec(1, 10), initializing |-> Dec(2, 10),
     running |-> Dec(3, 10), computing_metrics |-> Dec(8, 10),
     complete |-> D(1)]

\* what engine.run() hands back, or "raises"
EngineOutcomes == {"raises", "flat", "traded"}

\* the arguments of run_backtest; `data` says whether the CSV directory
\* holds the price files, `engine` what engine.run() does: one of
\* EngineOutcomes, or "runs" for the engine of this module run step by step
Requests ==
    [strategy_name : {"value_moat", "momentum"},
     tickers : {<<"AAPL", "MSFT">>},
     start_date : {1},
     end_date : {MaxDays},
     rebalance_frequency : {1},
     data : {"loads", "fails"},
     engine : EngineOutcomes]

\* the rows of the price files in the CSV directory
CsvFiles(data) ==
    IF data = "loads" THEN { Row(t, d) : t \in Tickers, d \in Dates } ELSE {}

\* CSVDataProvider.fetch_prices: the rows of the tickers in the date range
fetch_prices(files, tickers, start_date, end_date) ==
    LET in_range(t) == { r \in files : /\ r.ticker = Upper(t)
                                       /\ r.date >= start_date
                                       /\ r.date <= end_date }
    IN  IF tickers = << >>
        THEN [ok |-> FALSE, error |-> "Tickers list cannot be empty",
              prices |-> {}]
        ELSE IF start_date > end_date
        THEN [ok |-> FALSE, error |-> "start_date cannot be after end_date",
              prices |-> {}]
        ELSE IF \E t \in Range(tickers) : in_range(t) = {}
        THEN [ok |-> FALSE, error |-> "No data for ticker", prices |-> {}]
        ELSE [ok |-> TRUE, error |-> "",
              prices |-> UNION { in_range(t) : t \in Range(tickers) }]

\* a hook returns on every notification but the one named by `at`
Hooks ==
    { [at |-> "", does |-> "returns"] }
    \cup [at : Range(Stages), does : {"raises", "blocks", "mutates"}]

\* results_dict as formatted from the engine's results; num_trades is
\* results["metrics"]["num_trades"], the length of the per-trade P&L list,
\* which has one entry for each closing trade (the first trade of a run
\* opens a position)
Format(engine) ==
    IF engine = "runs"
    THEN [metrics |-> "metrics_run",
          num_trades |-> Len(SelectSeq(executed_trades, is_closing))]
    ELSE [metrics |-> IF engine = "traded" THEN "metrics_traded"
                      ELSE "metrics_flat",
          num_trades |-> 0]

\* results_dict after the hook wrote to data["results"]
Written(results) == [results EXCEPT !.metrics = "written_by_hook"]

Payload(stage) == [stage |-> stage, progress |-> StageProgress[stage]]

\* str(e) of what run_backtest raises or lets through
UnknownStrategy == "Unknown strategy"

FailedToLoad == "Failed to load market data"

EngineError == "raised by engine.run()"

HookError == "raised by progress_callback"

\* if progress_callback: await progress_callback({...}), then go on at `next`
Notify(stage, next) ==
    IF ~service.hook
    THEN service' = [service EXCEPT !.pc = next]
    ELSE LET does == IF progress_callback.at = stage
                     THEN progress_callback.does ELSE "returns"
             told == Append(service.events, Payload(stage))
         IN  CASE does = "returns" ->
                    service' = [service EXCEPT !.pc = next, !.events = told]
               [] does = "raises" ->
                    service' = [service EXCEPT !.pc = "raised",
                                               !.events = told,
                                               !.outcome = "raised",
                                               !.error = HookError]
               [] does = "blocks" ->
                    service' = [service EXCEPT !.pc = "blocked",
                                               !.events = told,
                                               !.outcome = "blocked"]
               [] does = "mutates" ->
                    service' = [service EXCEPT
                        !.pc = next, !.events = told,
                        !.results_dict =
                            IF stage = "complete" THEN Some(Written(@[1]))
                            ELSE @]

Called(hook) ==
    [pc |-> "validate", hook |-> hook, events |-> << >>, market_data |-> None,
     results_dict |-> None, outcome |-> "pending", error |-> ""]

CoreIdle ==
    /\ portfolio = create(Zero)
    /\ receiver = create(Zero)
    /\ last = Call("none", NoTrade, EmptyDict, create(Zero), TRUE, "")
    /\ pc = "none"
    /\ ops = 0
    /\ NoEngine

InitService ==
    /\ request \in Requests
    /\ progress_callback \in Hooks
    /\ service = Called(FALSE)
    /\ plain = None
    /\ CoreIdle
    /\ NoRoute

ServiceFrame ==
    UNCHANGED <<portfolio, last, pc, ops, receiver, engineVars, request,
                progress_callback, plain, routeVars, metricsVars>>

\* if strategy_name not in AVAILABLE_STRATEGIES: raise ValueError
Validate ==
    /\ service.pc = "validate"
    /\ service' = IF request.strategy_name \in AVAILABLE_STRATEGIES
                  THEN [service EXCEPT !.pc = "notify_loading_data"]
                  ELSE [service EXCEPT !.pc = "raised", !.outcome = "raised",
                                       !.error = UnknownStrategy]
    /\ ServiceFrame

NotifyLoadingData ==
    /\ service.pc = "notify_loading_data"
    /\ Notify("loading_data", "load")
    /\ ServiceFrame

\* try: fetch prices and fundamentals, MarketData(...); except: ValueError
LoadMarketData ==
    /\ service.pc = "load"
    /\ LET prices_df == fetch_prices(CsvFiles(request.data), request.tickers,
                                     request.start_date, request.end_date)
       IN  service' =
             IF prices_df.ok
             THEN [service EXCEPT
                     !.pc = "notify_initializing",
                     !.market_data = Some(MarketData(prices_df.prices))]
             ELSE [service EXCEPT !.pc = "raised", !.outcome = "raised",
                                  !.error = FailedToLoad]
    /\ ServiceFrame

NotifyInitializing ==
    /\ service.pc = "notify_initializing"
    /\ Notify("initializing", "create")
    /\ ServiceFrame

\* the strategy instance and the BacktestConfig
CreateStrategy ==
    /\ service.pc = "create"
    /\ service' = [service EXCEPT !.pc = "notify_running"]
    /\ ServiceFrame

NotifyRunning ==
    /\ service.pc = "notify_running"
    /\ Notify("running", "run")
    /\ ServiceFrame

\* engine = BacktestEngine(...); results = await engine.run()
RunEngine ==
    /\ service.pc = "run"
    /\ request.engine \in EngineOutcomes
    /\ service' = IF request.engine = "raises"
                  THEN [service EXCEPT !.pc = "raised", !.outcome = "raised",
                                       !.error = EngineError]
                  ELSE [service EXCEPT !.pc = "notify_computing_metrics"]
    /\ ServiceFrame

NotifyComputingMetrics ==
    /\ service.pc = "notify_computing_metrics"
    /\ Notify("computing_metrics", "format")
    /\ ServiceFrame

\* results_dict = {...}
FormatResults ==
    /\ service.pc = "format"
    /\ service' = [service EXCEPT !.pc = "notify_complete",
                                  !.results_dict = Some(Format(request.engine))]
    /\ ServiceFrame

NotifyComplete ==
    /\ service.pc = "notify_complete"
    /\ Notify("complete", "return")
    /\ ServiceFrame

\* return results_dict
ReturnResults ==
    /\ service.pc = "return"
    /\ service' = [service EXCEPT !.pc = "returned", !.outcome = "returned"]
    /\ ServiceFrame

\* the same arguments again, this time with progress_callback
CallWithHook ==
    /\ service.pc \in {"returned", "raised"}
    /\ plain = None
    /\ plain' = Some([outcome |-> service.outcome,
                      results_dict |-> service.results_dict])
    /\ service' = Called(TRUE)
    /\ UNCHANGED <<portfolio, last, pc, ops, receiver, engineVars, request,
                   progress_callback, routeVars, metricsVars>>

\* the steps of one call of run_backtest
RunBacktest ==
    \/ Validate
    \/ NotifyLoadingData
    \/ LoadMarketData
    \/ NotifyInitializing
    \/ CreateStrategy
    \/ NotifyRunning
    \/ RunEngine
    \/ NotifyComputingMetrics
    \/ FormatResults
    \/ NotifyComplete
    \/ ReturnResults

NextService ==
    \/ RunBacktest
    \/ CallWithHook

SpecService == InitService /\ [][NextService]_vars

(***************************************************************************)
(* A backtest from either entry point: BacktestEngine(...).run() called    *)
(* directly on any market data, or run_backtest (without a hook) building  *)
(* the engine from what the data provider returned and running it.         *)
(***************************************************************************)
\* a valid range and one that starts after it ends
DateRanges == { <<1, MaxDays>>, <<MaxDays, 1>> }

BacktestRequests ==
    { [strategy_name |-> n, tickers |-> t, start_date |-> r[1],
       end_date |-> r[2], rebalance_frequency |-> 1, data |-> d,
       engine |-> "runs"] :
         n \in {"value_moat", "momentum"},
         t \in {<< >>, <<"AAPL", "MSFT">>},
         r \in DateRanges,
         d \in {"loads", "fails"} }

InitBacktest ==
    \/ InitEngine
    \/ /\ request \in BacktestRequests
       /\ progress_callback = [at |-> "", does |-> "returns"]
       /\ service = Called(FALSE)
       /\ plain = None
       /\ CoreIdle
       /\ NoRoute

\* engine = BacktestEngine(strategy, market_data, config)
CreateEngine ==
    /\ service.pc = "run"
    /\ request.engine = "runs"
    /\ Construct(service.market_data[1],
                 BacktestConfig(request.rebalance_frequency))
    /\ last' = Call("create", NoTrade, EmptyDict,
                    create(D(BacktestConfig(request.rebalance_frequency)
                               .initial_capital)), TRUE, "")
    /\ service' = [service EXCEPT !.pc = "engine"]
    /\ UNCHANGED <<pc, ops, receiver, now, first, other, request,
                   progress_callback, plain, routeVars, metricsVars>>

\* results = await engine.run(): it returned, or what it raised propagates
EngineRan ==
    /\ service.pc = "engine"
    /\ epc \in {"returned", "raised"}
    /\ service' = IF epc = "raised"
                  THEN [service EXCEPT !.pc = "raised", !.outcome = "raised",
                                       !.error = EngineError]
                  ELSE [service EXCEPT !.pc = "notify_computing_metrics"]
    /\ ServiceFrame

NextBacktest ==
    \/ Validate
    \/ NotifyLoadingData
    \/ LoadMarketData
    \/ NotifyInitializing
    \/ CreateStrategy
    \/ NotifyRunning
    \/ CreateEngine
    \/ NextEngine
    \/ EngineRan
    \/ NotifyComputingMetrics
    \/ FormatResults
    \/ NotifyComplete
    \/ ReturnResults

SpecBacktest == InitBacktest /\ [][NextBacktest]_vars

(***************************************************************************)
(* run_backtest_streaming.event_generator (routes/backtest.py).  The       *)
(* generator parses the dates, starts run_backtest_task and then takes     *)
(* items from progress_queue until the end sentinel or an error item; the  *)
(* task calls the service with a hook that puts each notification on the   *)
(* queue, stores the results once the service has returned, and puts the   *)
(* end sentinel, or the error and the end sentinel.  The queue is          *)
(* unbounded, so the hook always returns.  The two coroutines interleave   *)
(* at every step.  What db.commit() does with the row is the database's    *)
(* answer: it commits or it raises.                                        *)
(***************************************************************************)
\* the hook of the route: await progress_queue.put(data)
QueuePut == [at |-> "", does |-> "returns"]

\* await progress_queue.put(None)
Sentinel == [sentinel |-> TRUE]

\* await progress_queue.put({"error": str(e)})
ErrorItem(e) == [error |-> e]

\* yield f"event: error\ndata: {json.dumps({'error': ...})}\n\n"
ErrorEvent(e) == [event |-> "error", data |-> <<"json", [error |-> e]>>]

\* str(e) of date.fromisoformat on a malformed date
InvalidIsoformat == "Invalid isoformat string"

\* "Internal error: " + str(e) for the TypeError of json.dumps
InternalError == "Internal error: Object of type date is not JSON serializable"

\* str(e) of what db.commit() raises
CommitError == "raised by db.commit()"

\* json.dumps(data): the 'complete' notification carries the results, whose
\* equity_curve holds the datetime.date of each snapshot
json_dumps(data) ==
    IF data.stage = "complete" THEN None ELSE Some(<<"json", data>>)

\* the row that BacktestRepository.create adds
BacktestRun(strategy_name, results, status, error_message) ==
    [strategy_name |-> strategy_name, metrics |-> results.metrics,
     num_trades |-> results.num_trades, status |-> status,
     error_message |-> error_message]

\* BacktestRepository.create as the route calls it: status and
\* error_message take their defaults
repository_create(table, strategy_name, results) ==
    Append(table, BacktestRun(strategy_name, results, "completed", None))

\* everything put on progress_queue so far, in order
progress_queue == service.events \o route.tail

InitRoute ==
    /\ request \in Requests
    /\ progress_callback = QueuePut
    /\ service = NotCalled
    /\ plain = None
    /\ CoreIdle
    /\ \E iso \in BOOLEAN :
          route = [pc |-> "parse", iso |-> iso, task |-> "none",
                   consumed |-> 0, tail |-> << >>, stream |-> << >>]
    /\ store = << >>
    /\ calculator = None
    /\ backtest_results = None
    /\ position_call = None

RouteFrame ==
    UNCHANGED <<portfolio, last, pc, ops, receiver, engineVars, request,
                progress_callback, plain, metricsVars>>

\* start = date.fromisoformat(...); end = date.fromisoformat(...)
ParseDates ==
    /\ route.pc = "parse"
    /\ route' = IF route.iso
                THEN [route EXCEPT !.pc = "create_task"]
                ELSE [route EXCEPT
                         !.pc = "done",
                         !.stream = Append(@, ErrorEvent(InvalidIsoformat))]
    /\ UNCHANGED <<service, store>>
    /\ RouteFrame

\* task = asyncio.create_task(run_backtest_task())
CreateTask ==
    /\ route.pc = "create_task"
    /\ route' = [route EXCEPT !.pc = "get", !.task = "running"]
    /\ service' = Called(TRUE)
    /\ UNCHANGED store
    /\ RouteFrame

TaskFails_silent ==
    /\ route.task = "running"
    /\ service.pc = "raised"
    /\ route' = [route EXCEPT !.task = "done", !.tail = <<Sentinel>>]
    /\ UNCHANGED <<service, store>>
    /\ RouteFrame

\* the service raised: except Exception as e: put({"error": str(e)}); put(None)
TaskFails ==
    /\ route.task = "running"
    /\ service.pc = "raised"
    /\ route' = [route EXCEPT
                    !.task = "done",
                    !.tail = <<ErrorItem(service.error), Sentinel>>]
    /\ UNCHANGED <<service, store>>
    /\ RouteFrame

\* the service returned: repository.create(...), then put(None)
Persist ==
    /\ route.task = "running"
    /\ service.pc = "returned"
    /\ \E db \in {"commits", "raises"} :
          IF db = "commits"
          THEN /\ store' = repository_create(store, request.strategy_name,
                                             service.results_dict[1])
               /\ route' = [route EXCEPT !.task = "done",
                                         !.tail = <<Sentinel>>]
          ELSE /\ store' = store
               /\ route' = [route EXCEPT
                               !.task = "done",
                               !.tail = <<ErrorItem(CommitError), Sentinel>>]
    /\ UNCHANGED service
    /\ RouteFrame

\* data = await progress_queue.get() and the rest of the loop body
Get ==
    /\ route.pc = "get"
    /\ route.consumed < Len(progress_queue)
    /\ LET data == progress_queue[route.consumed + 1]
           taken == [route EXCEPT !.consumed = @ + 1]
       IN  route' =
             CASE data = Sentinel ->
                    [taken EXCEPT !.pc = "await_task"]
               [] "error" \in DOMAIN data ->
                    [taken EXCEPT !.pc = "await_task",
                                  !.stream = Append(@, ErrorEvent(data.error))]
               [] OTHER ->
                    IF json_dumps(data) # None
                    THEN [taken EXCEPT
                            !.stream = Append(@, [event |-> "message",
                                                  data |-> json_dumps(data)[1]])]
                    ELSE [taken EXCEPT
                            !.pc = "done",
                            !.stream = Append(@, ErrorEvent(InternalError))]
    /\ UNCHANGED <<service, store>>
    /\ RouteFrame

\* await task
AwaitTask ==
    /\ route.pc = "await_task"
    /\ route.task = "done"
    /\ route' = [route EXCEPT !.pc = "done"]
    /\ UNCHANGED <<service, store>>
    /\ RouteFrame

NextRoute ==
    \/ ParseDates
    \/ CreateTask
    \/ RunBacktest
    \/ TaskFails
    \/ Persist
    \/ Get
    \/ AwaitTask

SpecRoute == InitRoute /\ [][NextRoute]_vars

\* the coroutine started by asyncio.create_task
run_backtest_task == RunBacktest \/ TaskFails \/ Persist

\* the coroutine the response iterates
event_generator == ParseDates \/ CreateTask \/ Get \/ AwaitTask

\* the event loop runs every coroutine that is ready: the task is ready
\* until it has finished (its awaits are puts on an unbounded queue and the
\* steps of the service), the generator whenever the queue holds an item it
\* has not taken, or the task it awaits is done
SpecRouteFair ==
    /\ InitRoute
    /\ [][NextRoute]_vars
    /\ WF_vars(run_backtest_task)
    /\ WF_vars(event_generator)

(***************************************************************************)
(* PerformanceMetrics (backtesting/metrics.py).  A float is a tagged       *)
(* value: "rat" carries the exact quotient, "finite" is a finite float     *)
(* whose digits the model does not evaluate (a power, a square root or a   *)
(* quotient of one), "inf" is float('inf') and "nan" is NaN.  NaN compares *)
(* unequal to everything, 0 included.  The daily values are non-zero, so   *)
(* no division of the constructor or of max_drawdown has a zero divisor.   *)
(***************************************************************************)
MaxValues == 3

MaxPnls == 3

Rat(q) == [kind |-> "rat", q |-> q]

Finite == [kind |-> "finite", q |-> Zero]

Inf == [kind |-> "inf", q |-> Zero]

NaN == [kind |-> "nan", q |-> Zero]

\* x == 0 on floats
IsZero(x) == x.kind = "rat" /\ x.q = Zero

\* daily portfolio values: levels of an equity curve, one of them below zero
ValueLevels == {-100000, 81000, 90000, 100000, 120000}

DailyValues ==
    UNION { [1..n -> { D(v) : v \in ValueLevels }] : n \in 0..MaxValues }

\* initial_capital handed to PerformanceMetrics
StartingCapitals == {100000}

\* realized P&L per trade: a loss, a scratch trade and two wins
PnlLevels == {-100, 0, 100, 300}

TradesPnls == UNION { [1..n -> { D(p) : p \in PnlLevels }] : n \in 0..MaxPnls }

\* default of the constructor's risk_free_rate
risk_free_rate == Rat(Dec(2, 100))

trading_days_per_year == 252

\* np.diff(daily_values) / daily_values[:-1]
daily_returns(daily_values) ==
    IF Len(daily_values) = 0 THEN << >>
    ELSE [k \in 1..(Len(daily_values) - 1) |->
             DDiv(DSub(daily_values[k + 1], daily_values[k]), daily_values[k])]

\* PerformanceMetrics(daily_values, initial_capital)
PerformanceMetrics(daily_values, initial_capital) ==
    [daily_values |-> daily_values,
     initial_capital |-> initial_capital,
     daily_returns |-> daily_returns(daily_values)]

\* np.std(a, ddof=1): the sum of squared deviations from the mean over
\* len(a) - 1.  One element divides 0.0 by 0 and gives NaN.  Two equal
\* elements, or any number of zeros, have mean and deviations exact and give
\* 0.0; three or more equal non-zero elements may leave a rounding residue
\* in the mean, and different elements give a square root.
np_std(a) ==
    IF Len(a) = 1 THEN NaN
    ELSE IF /\ \A k \in DOMAIN a : a[k] = a[1]
            /\ (Len(a) = 2 \/ a[1] = Zero)
         THEN Rat(Zero)
    ELSE Finite

\* x * np.sqrt(252)
TimesSqrt(x) == IF x.kind = "rat" /\ x.q # Zero THEN Finite ELSE x

\* (ann_return - risk_free_rate) / vol, vol == 0 excluded by the caller
ExcessOver(ann_return, vol) ==
    IF ann_return.kind = "nan" \/ vol.kind = "nan" THEN NaN ELSE Finite

total_return(C) ==
    IF Len(C.daily_values) = 0 THEN Rat(Zero)
    ELSE Rat(DDiv(DSub(C.daily_values[Len(C.daily_values)], C.initial_capital),
                  C.initial_capital))

\* (1 + total_return) ** (1 / years) - 1 with years = num_days / 252.  A
\* base below zero has a power only for a whole exponent: 1 / years is the
\* whole number 252, 126, 84 or 63 for one to four daily returns, and the
\* power is NaN when 252 / num_days is not whole.
annualized_return(C) ==
    IF Len(C.daily_values) < 2 THEN Rat(Zero)
    ELSE LET base == DAdd(D(1), total_return(C).q)
             num_days == Len(C.daily_values) - 1
         IN  IF base = Zero THEN Rat(D(-1))
             ELSE IF base = D(1) THEN Rat(Zero)
             ELSE IF DLt(base, Zero) /\ trading_days_per_year % num_days # 0
                  THEN NaN
             ELSE Finite

volatility(C) ==
    IF Len(C.daily_returns) = 0 THEN Rat(Zero)
    ELSE TimesSqrt(np_std(C.daily_returns))

sharpe_ratio(C) ==
    IF Len(C.daily_returns) = 0 THEN Rat(Zero)
    ELSE LET ann_return == annualized_return(C)
             ann_vol == volatility(C)
         IN  IF IsZero(ann_vol) THEN Rat(Zero)
             ELSE ExcessOver(ann_return, ann_vol)

\* daily_returns[daily_returns < 0]
Negative(a) == SelectSeq(a, LAMBDA r : DLt(r, Zero))

\* the downside deviation taken of whatever returns are negative, none included
sortino_ratio_without_sentinel(C) ==
    IF Len(C.daily_returns) = 0 THEN Rat(Zero)
    ELSE LET ann_return == annualized_return(C)
             negative_returns == Negative(C.daily_returns)
         IN  IF Len(negative_returns) = 0 THEN NaN
             ELSE LET downside_vol_ann == TimesSqrt(np_std(negative_returns))
                  IN  IF IsZero(downside_vol_ann) THEN Rat(Zero)
                      ELSE ExcessOver(ann_return, downside_vol_ann)

sortino_ratio(C) ==
    IF Len(C.daily_returns) = 0 THEN Rat(Zero)
    ELSE LET ann_return == annualized_return(C)
             negative_returns == Negative(C.daily_returns)
         IN  IF Len(negative_returns) = 0 THEN Inf
             ELSE LET downside_vol_ann == TimesSqrt(np_std(negative_returns))
                  IN  IF IsZero(downside_vol_ann) THEN Rat(Zero)
                      ELSE ExcessOver(ann_return, downside_vol_ann)

\* np.maximum.accumulate
RECURSIVE accumulate_maximum(_)
accumulate_maximum(a) ==
    IF Len(a) <= 1 THEN a
    ELSE LET head == accumulate_maximum(SubSeq(a, 1, Len(a) - 1))
             prev == head[Len(head)]
         IN  Append(head, IF DGt(a[Len(a)], prev) THEN a[Len(a)] ELSE prev)

\* np.min of a non-empty array
RECURSIVE np_min(_)
np_min(a) ==
    IF Len(a) = 1 THEN a[1]
    ELSE LET m == np_min(SubSeq(a, 1, Len(a) - 1))
         IN  IF DLt(a[Len(a)], m) THEN a[Len(a)] ELSE m

\* the drawdown measured from the highest value of the whole series
max_drawdown_global_peak(C) ==
    IF Len(C.daily_values) < 2 THEN Rat(Zero)
    ELSE LET full == accumulate_maximum(C.daily_values)
             peak == full[Len(full)]
             drawdowns == [k \in DOMAIN C.daily_values |->
                              DDiv(DSub(C.daily_values[k], peak), peak)]
         IN  Rat(np_min(drawdowns))

max_drawdown(C) ==
    IF Len(C.daily_values) < 2 THEN Rat(Zero)
    ELSE LET cumulative_max == accumulate_maximum(C.daily_values)
             drawdowns == [k \in DOMAIN C.daily_values |->
                              DDiv(DSub(C.daily_values[k], cumulative_max[k]),
                                   cumulative_max[k])]
         IN  Rat(np_min(drawdowns))

calmar_ratio(C) ==
    LET max_dd == [n |-> Abs(max_drawdown(C).q.n), d |-> max_drawdown(C).q.d]
    IN  IF max_dd = Zero THEN Inf
        ELSE LET ann_return == annualized_return(C)
             IN  IF ann_return.kind = "rat"
                 THEN Rat(DDiv(ann_return.q, max_dd))
                 ELSE ann_return

\* sum(...) over a list of floats
RECURSIVE sum(_)
sum(a) == IF Len(a) = 0 THEN Zero ELSE DAdd(a[1], sum(Tail(a)))

Wins(trades_pnl) == SelectSeq(trades_pnl, LAMBDA pnl : DGt(pnl, Zero))

Losses(trades_pnl) == SelectSeq(trades_pnl, LAMBDA pnl : DLt(pnl, Zero))

win_rate(trades_pnl) ==
    IF Len(trades_pnl) = 0 THEN Rat(Zero)
    ELSE Rat(Dec(Len(Wins(trades_pnl)), Len(trades_pnl)))

profit_factor(trades_pnl) ==
    IF Len(trades_pnl) = 0 THEN Rat(Zero)
    ELSE LET gross_profit == sum(Wins(trades_pnl))
             gross_loss == DNeg(sum(Losses(trades_pnl)))
         IN  IF gross_loss = Zero
             THEN (IF DGt(gross_profit, Zero) THEN Inf ELSE Rat(Zero))
             ELSE Rat(DDiv(gross_profit, gross_loss))

average_win_loss_ratio(trades_pnl) ==
    IF Len(trades_pnl) = 0 THEN Rat(Zero)
    ELSE LET wins == Wins(trades_pnl)
             losses == [k \in DOMAIN Losses(trades_pnl) |->
                           DNeg(Losses(trades_pnl)[k])]
         IN  IF Len(wins) = 0 \/ Len(losses) = 0 THEN Rat(Zero)
             ELSE LET avg_win == DDiv(sum(wins), D(Len(wins)))
                      avg_loss == DDiv(sum(losses), D(Len(losses)))
                  IN  IF avg_loss = Zero THEN Inf
                      ELSE Rat(DDiv(avg_win, avg_loss))

\* calculate_all(trades_pnl): the dict of the seven curve metrics, with the
\* four trade metrics added when a list was passed
calculate_all(C, trades_pnl) ==
    LET metrics == [total_return |-> total_return(C),
                    annualized_return |-> annualized_return(C),
                    volatility |-> volatility(C),
                    sharpe_ratio |-> sharpe_ratio(C),
                    sortino_ratio |-> sortino_ratio(C),
                    max_drawdown |-> max_drawdown(C),
                    calmar_ratio |-> calmar_ratio(C)]
    IN  IF trades_pnl = None THEN metrics
        ELSE [total_return |-> metrics.total_return,
              annualized_return |-> metrics.annualized_return,
              volatility |-> metrics.volatility,
              sharpe_ratio |-> metrics.sharpe_ratio,
              sortino_ratio |-> metrics.sortino_ratio,
              max_drawdown |-> metrics.max_drawdown,
              calmar_ratio |-> metrics.calmar_ratio,
              win_rate |-> win_rate(trades_pnl[1]),
              profit_factor |-> profit_factor(trades_pnl[1]),
              avg_win_loss_ratio |-> average_win_loss_ratio(trades_pnl[1]),
              num_trades |-> Len(trades_pnl[1])]

\* the curve of the drawdown scenario, used with every list of trade P&Ls
ScenarioValues == <<D(100000), D(90000), D(120000)>>

\* a calculator with the argument its calculate_all will be called with:
\* every curve without trades, one curve with every list of trades
Calculators ==
    { [self |-> PerformanceMetrics(v, D(c)), trades_pnl |-> None,
       metrics |-> None] : v \in DailyValues, c \in StartingCapitals }
    \cup
    { [self |-> PerformanceMetrics(ScenarioValues, D(c)), trades_pnl |-> Some(t),
       metrics |-> None] : t \in TradesPnls, c \in StartingCapitals }

InitMetrics ==
    /\ calculator \in Calculators
    /\ backtest_results = None
    /\ position_call = None
    /\ CoreIdle
    /\ NoService
    /\ NoStream

\* metrics = calculator.calculate_all(trades_pnl)
CalculateAll ==
    /\ calculator # None
    /\ calculator.metrics = None
    /\ calculator' =
           [calculator EXCEPT
               !.metrics = Some(calculate_all(calculator.self, calculator.trades_pnl))]
    /\ UNCHANGED <<portfolio, last, pc, ops, receiver, engineVars, serviceVars,
                   routeVars, backtest_results, position_call>>

NextMetrics == CalculateAll

SpecMetrics == InitMetrics /\ [][NextMetrics]_vars

(***************************************************************************)
(* BacktestResults (backtesting/results.py).  The results object holds the *)
(* engine's own daily_snapshots and executed_trades lists (engine.py       *)
(* 138-139), so a later run() of that engine appends to the lists the      *)
(* results object reads; the portfolio it holds is frozen.  The variable   *)
(* keeps the object (self) and, of the accesses to .metrics, how many      *)
(* there were (reads), the object as the first one found it (found), the   *)
(* per-trade P&L list the first one computed (trades_pnl), the dict it     *)
(* returned (first_value) and the dict the last one returned (returned).   *)
(***************************************************************************)
MaxTrades == 3

MaxReads == 2

\* date.isoformat()
isoformat(d) == <<"iso", d>>

BacktestResults(name, start, end, capital, final, snapshots, trades, P) ==
    [strategy_name |-> name, start_date |-> start, end_date |-> end,
     initial_capital |-> capital, final_value |-> final,
     daily_snapshots |-> snapshots, executed_trades |-> trades,
     portfolio |-> P, metrics_cache |-> None]

duration_days(R) == R.end_date - R.start_date

\* the num_trades property
num_trades(R) == Len(R.executed_trades)

\* float(x) / n
FloatQuotient(x, n) == float(DDiv(float(x), D(n)))

\* _calculate_trades_pnl
calculate_trades_pnl(R) ==
    IF Len(R.executed_trades) = 0 THEN << >>
    ELSE LET closing_trades == SelectSeq(R.executed_trades, is_closing)
         IN  IF Len(closing_trades) = 0 THEN << >>
             ELSE LET avg_pnl_per_trade ==
                          FloatQuotient(R.portfolio.realized_pnl,
                                        Len(closing_trades))
                  IN  [k \in 1..Len(closing_trades) |-> avg_pnl_per_trade]

\* _calculate_metrics
calculate_metrics(R) ==
    LET daily_values == [k \in DOMAIN R.daily_snapshots |->
                            R.daily_snapshots[k].total_value]
        trades_pnl == calculate_trades_pnl(R)
    IN  calculate_all(PerformanceMetrics(daily_values, R.initial_capital),
                      Some(trades_pnl))
        @@ [strategy_name |-> R.strategy_name,
            start_date |-> isoformat(R.start_date),
            end_date |-> isoformat(R.end_date),
            duration_days |-> duration_days(R),
            initial_capital |-> R.initial_capital,
            final_value |-> R.final_value]

\* the metrics property computing the dict at every access
metrics_recomputed(R) == [R EXCEPT !.metrics_cache = Some(calculate_metrics(R))]

\* the metrics property: the object after the access; the value returned is
\* its metrics_cache
metrics(R) ==
    IF R.metrics_cache = None
    THEN [R EXCEPT !.metrics_cache = Some(calculate_metrics(R))]
    ELSE R

\* trades of a log: one of each action
LogTrades ==
    { BuildTrade("AAPL", a, 10, 100, << >>) :
          a \in {"buy", "sell", "short", "cover"} }

TradeLogs == UNION { [1..n -> LogTrades] : n \in 0..MaxTrades }

\* portfolio.realized_pnl after at least one closing trade
RealizedPnls == { D(-300), D(100), Dec(2001, 10) }

\* the snapshot fields the results object reads
Snapshots(values) == [k \in DOMAIN values |-> [date |-> k, total_value |-> values[k]]]

\* the results of a run over the first two days of the scenario curve
ResultsObjects ==
    { BacktestResults("momentum", 1, 2, D(100000), ScenarioValues[2],
                      Snapshots(SubSeq(ScenarioValues, 1, 2)), log,
                      [create(D(100000)) EXCEPT !.realized_pnl = rp]) :
          log \in TradeLogs,
          rp \in { Zero } \cup RealizedPnls }

\* a log without closing trade has realized nothing
Consistent(R) ==
    (\A k \in DOMAIN R.executed_trades : ~is_closing(R.executed_trades[k]))
        => R.portfolio.realized_pnl = Zero

InitResults ==
    /\ \E R \in ResultsObjects :
          /\ Consistent(R)
          /\ backtest_results =
                 [self |-> R, reads |-> 0, found |-> None, trades_pnl |-> << >>,
                  first_value |-> None, returned |-> None]
    /\ calculator = None
    /\ position_call = None
    /\ CoreIdle
    /\ NoService
    /\ NoStream

ResultsFrame ==
    UNCHANGED <<portfolio, last, pc, ops, receiver, engineVars, serviceVars,
                routeVars, calculator, position_call>>

\* results.metrics
ReadMetrics ==
    /\ backtest_results # None
    /\ backtest_results.reads < MaxReads
    /\ LET R == backtest_results.self
           after == metrics(R)
           initial == backtest_results.reads = 0
       IN  backtest_results' =
               [self |-> after,
                reads |-> backtest_results.reads + 1,
                found |-> IF initial THEN Some(R) ELSE backtest_results.found,
                trades_pnl |-> IF initial THEN calculate_trades_pnl(R)
                               ELSE backtest_results.trades_pnl,
                first_value |-> IF initial THEN after.metrics_cache
                                ELSE backtest_results.first_value,
                returned |-> after.metrics_cache]
    /\ ResultsFrame

\* self.executed_trades.append(trade) in a later run() of the engine
AppendTrade ==
    /\ backtest_results # None
    /\ Len(backtest_results.self.executed_trades) < MaxTrades
    /\ \E t \in LogTrades :
          backtest_results' =
              [backtest_results EXCEPT !.self.executed_trades = Append(@, t)]
    /\ ResultsFrame

\* self.daily_snapshots.append({...}) in a later run() of the engine
AppendSnapshot ==
    /\ backtest_results # None
    /\ Len(backtest_results.self.daily_snapshots) < Len(ScenarioValues)
    /\ LET k == Len(backtest_results.self.daily_snapshots) + 1
       IN  backtest_results' =
               [backtest_results EXCEPT
                   !.self.daily_snapshots =
                       Append(@, [date |-> k, total_value |-> ScenarioValues[k]])]
    /\ ResultsFrame

NextResults ==
    \/ ReadMetrics
    \/ AppendTrade
    \/ AppendSnapshot

SpecResults == InitResults /\ [][NextResults]_vars

(***************************************************************************)
(* Position used on its own (position.py): a validated Position and calls  *)
(* of update_price, add_shares and remove_shares on it.  add_shares builds *)
(* its result with Position(...), which validates the fields, after        *)
(* dividing by the new quantity; a zero divisor raises in Decimal.         *)
(***************************************************************************)
MaxCalls == 2

PositionSides == {"long", "short"}

\* current_price: the default 0 and the price levels
MarkLevels == {0} \cup PriceLevels

\* Position(ticker, side, quantity, avg_price, current_price), validated
Positions ==
    { p \in { [ticker |-> "AAPL", side |-> sd, quantity |-> D(q),
               avg_price |-> D(a), current_price |-> D(m)] :
                 sd \in PositionSides, q \in Quantities, a \in PriceLevels,
                 m \in MarkLevels } : PositionValid(p) }

\* quantities handed to add_shares: Decimal of either sign
AddQuantities == {-100, -50, 50}

\* quantities handed to remove_shares
RemoveQuantities == {50, 100, 150}

\* position.add_shares(quantity, price) as a call: [raised, position]
add_shares_call(p, quantity, price) ==
    IF DAdd(p.quantity, quantity) = Zero
    THEN [raised |-> TRUE, position |-> None]
    ELSE LET new_position == add_shares(p, quantity, price)
         IN  IF PositionValid(new_position)
             THEN [raised |-> FALSE, position |-> Some(new_position)]
             ELSE [raised |-> TRUE, position |-> None]

PositionCall(op, quantity, price, pre, raised, returned, realized_pnl) ==
    [op |-> op, quantity |-> quantity, price |-> price, pre |-> pre,
     raised |-> raised, returned |-> returned, realized_pnl |-> realized_pnl]

InitPosition ==
    /\ \E p \in Positions :
          position_call =
              [self |-> Some(p), calls |-> 0,
               last |-> PositionCall("Position", Zero, Zero, p, FALSE,
                                     Some(p), Zero)]
    /\ calculator = None
    /\ backtest_results = None
    /\ CoreIdle
    /\ NoService
    /\ NoStream

PositionFrame ==
    UNCHANGED <<portfolio, last, pc, ops, receiver, engineVars, serviceVars,
                routeVars, calculator, backtest_results>>

Callable ==
    /\ position_call # None
    /\ position_call.self # None
    /\ position_call.calls < MaxCalls

\* position = position.update_price(new_price)
PositionUpdatePrice ==
    /\ Callable
    /\ \E m \in PriceLevels :
          LET p == position_call.self[1]
              np == update_price(p, D(m))
          IN  position_call' =
                  [self |-> Some(np), calls |-> position_call.calls + 1,
                   last |-> PositionCall("update_price", Zero, D(m), p, FALSE,
                                         Some(np), Zero)]
    /\ PositionFrame

\* position = position.add_shares(quantity, price); a raise leaves the
\* caller with the position it had
PositionAddShares ==
    /\ Callable
    /\ \E q \in AddQuantities, a \in PriceLevels :
          LET p == position_call.self[1]
              res == add_shares_call(p, D(q), D(a))
          IN  position_call' =
                  [self |-> IF res.raised THEN Some(p) ELSE res.position,
                   calls |-> position_call.calls + 1,
                   last |-> PositionCall("add_shares", D(q), D(a), p,
                                         res.raised, res.position, Zero)]
    /\ PositionFrame

\* position, realized_pnl = position.remove_shares(quantity); a raise
\* leaves the caller with the position it had
PositionRemoveShares ==
    /\ Callable
    /\ \E q \in RemoveQuantities :
          LET p == position_call.self[1]
              res == remove_shares(p, D(q))
          IN  position_call' =
                  [self |-> IF res.raised THEN Some(p) ELSE res.remaining,
                   calls |-> position_call.calls + 1,
                   last |-> PositionCall("remove_shares", D(q), Zero, p,
                                         res.raised, res.remaining,
                                         res.realized_pnl)]
    /\ PositionFrame

NextPosition ==
    \/ PositionUpdatePrice
    \/ PositionAddShares
    \/ PositionRemoveShares

SpecPosition == InitPosition /\ [][NextPosition]_vars

(***************************************************************************)
(* Properties                                                              *)
(***************************************************************************)
Applied == last.op = "apply_trade"

AppliedOk(action) == Applied /\ last.ok /\ last.trade.action = action

\* the position the receiver of the last call held for the trade's ticker
PrePos == last.pre.positions[last.trade.ticker]

PreHeld == last.trade.ticker \in DOMAIN last.pre.positions

PreHolds(side) == PreHeld /\ PrePos.side = side

PostHeld == last.trade.ticker \in DOMAIN portfolio.positions

PostPos == portfolio.positions[last.trade.ticker]

\* C1: whenever can_execute_trade answers true for a trade on a portfolio,
\* apply_trade of that trade on the same portfolio returns a new portfolio
\* and raises no error.
C1_CanExecuteImpliesApplySucceeds ==
    (Applied /\ can_execute_trade(last.pre, last.trade)[1]) => last.ok

C1_Witness ==
    /\ Applied /\ last.ok /\ pc = "ready"
    /\ last.trade.action = "cover"
    /\ can_execute_trade(last.pre, last.trade)[1]
    /\ portfolio # last.pre

\* C2: whenever can_execute_trade answers false, apply_trade of the same
\* trade on the same portfolio raises; can_execute_trade itself returns
\* (never raises) and leaves cash, positions and realized P&L as they were.
C2_CanExecuteMirrorsApply ==
    /\ (Applied /\ ~can_execute_trade(last.pre, last.trade)[1]) => ~last.ok
    /\ last.op = "can_execute_trade" =>
          /\ pc = "checked"
          /\ portfolio = last.pre
          /\ last.ok \in BOOLEAN

C2_Witness ==
    /\ Applied /\ ~last.ok /\ pc = "raised"
    /\ ~can_execute_trade(last.pre, last.trade)[1]
    /\ last.error = can_execute_trade(last.pre, last.trade)[2]
    /\ last.pre.positions # EmptyDict

\* market value of the position held for ticker t, 0 when none is held
HeldValue(t) ==
    IF t \in DOMAIN portfolio.positions
    THEN DMul(portfolio.positions[t].quantity, portfolio.positions[t].current_price)
    ELSE Zero

\* C3: after any sequence of applied trades and price updates, total_value
\* is exactly cash plus quantity x mark price summed over every position
\* held.
C3_TotalValueIsCashPlusPositions ==
    /\ DOMAIN portfolio.positions \subseteq Tickers
    /\ total_value(portfolio) =
          DAdd(portfolio.cash, DAdd(HeldValue("AAPL"), HeldValue("MSFT")))

C3_Witness ==
    /\ last.op = "update_prices"
    /\ portfolio # last.pre
    /\ total_value(portfolio) # total_value(last.pre)
    /\ total_value(portfolio) # portfolio.cash

\* C4: every position in the map has quantity > 0 and average cost > 0, and
\* a sell or cover of the whole held quantity removes the ticker from the
\* map.
C4_PositionsStrictlyPositive ==
    /\ \A t \in DOMAIN portfolio.positions :
          /\ portfolio.positions[t].quantity.n > 0
          /\ portfolio.positions[t].avg_price.n > 0
    /\ (Applied /\ last.ok /\ last.trade.action \in {"sell", "cover"}
          /\ PrePos.quantity = last.trade.quantity) => ~PostHeld

C4_Witness ==
    /\ AppliedOk("sell")
    /\ PrePos.quantity = last.trade.quantity
    /\ ~PostHeld

NoCosts(t) == t.fees = Zero /\ t.slippage = Zero

\* C5: for a ticker not held, buy(q, p) and then sell(q, p) with zero fees
\* and zero slippage gives cash back exactly and leaves no position for the
\* ticker.  Stated of every reachable portfolio and every q, p.
C5_BuyThenSellRestoresCash ==
    \A tk \in RawTickers, q \in Quantities, p \in PriceLevels :
        LET b == apply_trade(portfolio, BuildTrade(tk, "buy", q, p, << >>))
            s == apply_trade(b.portfolio, BuildTrade(tk, "sell", q, p, << >>))
        IN  (Upper(tk) \notin DOMAIN portfolio.positions /\ b.ok) =>
               /\ s.ok
               /\ s.portfolio.cash = portfolio.cash
               /\ Upper(tk) \notin DOMAIN s.portfolio.positions

C5_Witness ==
    /\ AppliedOk("sell") /\ NoCosts(last.trade)
    /\ \E c \in InitialCapitals :
          /\ last.pre = apply_trade(create(D(c)),
                                    [last.trade EXCEPT !.action = "buy"]).portfolio
          /\ last.pre # create(D(c))
          /\ portfolio.cash = D(c)
    /\ ~PostHeld

\* realized P&L of add_shares(q, p) followed at once by remove_shares(q)
AddThenRemove(pos, q, p) ==
    remove_shares(add_shares(pos, D(q), D(p)), D(q)).realized_pnl

\* C6 as stated: for any position marked at p, add_shares(q, p) followed at
\* once by remove_shares(q) realizes exactly zero.
C6_AddThenRemoveRealizesZero ==
    \A t \in DOMAIN portfolio.positions, q \in Quantities, p \in PriceLevels :
        portfolio.positions[t].current_price = D(p) =>
            AddThenRemove(portfolio.positions[t], q, p) = Zero

\* C6 amended: for a position whose average cost and mark price both equal
\* p, add_shares(q, p) followed at once by remove_shares(q) realizes exactly
\* zero.
C6_AddThenRemoveAtCostRealizesZero ==
    \A t \in DOMAIN portfolio.positions, q \in Quantities, p \in PriceLevels :
        (/\ portfolio.positions[t].current_price = D(p)
         /\ portfolio.positions[t].avg_price = D(p)) =>
            AddThenRemove(portfolio.positions[t], q, p) = Zero

\* a buy at the held position's cost has just grown it through add_shares,
\* and removing the same quantity from the result realizes nothing
C6_Witness ==
    /\ AppliedOk("buy") /\ PreHolds("long") /\ NoCosts(last.trade)
    /\ PrePos.avg_price = last.trade.price
    /\ PrePos.current_price = last.trade.price
    /\ PostPos = add_shares(PrePos, last.trade.quantity, last.trade.price)
    /\ PostPos.avg_price = last.trade.price
    /\ remove_shares(PostPos, last.trade.quantity).realized_pnl = Zero
    /\ remove_shares(PostPos, last.trade.quantity).remaining = Some(PrePos)

\* C7 as stated: short on a long position and buy on a short position raise
\* the conflicting-side error, sell or cover of more than the held quantity
\* raises the insufficient-shares error, and a raising call leaves the
\* portfolio as it was.
C7_ErrorKinds ==
    Applied =>
        /\ (last.trade.action = "short" /\ PreHolds("long")) =>
              (~last.ok /\ last.error = "conflicting_side")
        /\ (last.trade.action = "buy" /\ PreHolds("short")) =>
              (~last.ok /\ last.error = "conflicting_side")
        /\ (last.trade.action = "sell" /\ PreHolds("long")
              /\ DGt(last.trade.quantity, PrePos.quantity)) =>
              (~last.ok /\ last.error = "insufficient_shares")
        /\ (last.trade.action = "cover" /\ PreHolds("short")
              /\ DGt(last.trade.quantity, PrePos.quantity)) =>
              (~last.ok /\ last.error = "insufficient_shares")
        /\ ~last.ok => portfolio = last.pre

\* C7 amended: as C7, except that a buy on a short position raises the
\* conflicting-side error only when cash covers the total cost, and the
\* insufficient-cash error otherwise.
C7_ErrorKindsCashFirst ==
    Applied =>
        /\ (last.trade.action = "short" /\ PreHolds("long")) =>
              (~last.ok /\ last.error = "conflicting_side")
        /\ (last.trade.action = "buy" /\ PreHolds("short")) =>
              /\ ~last.ok
              /\ last.error =
                    IF DLt(last.pre.cash,
                           DAdd(DAdd(DMul(last.trade.quantity, last.trade.price),
                                     last.trade.fees), last.trade.slippage))
                    THEN "insufficient_cash" ELSE "conflicting_side"
        /\ (last.trade.action = "sell" /\ PreHolds("long")
              /\ DGt(last.trade.quantity, PrePos.quantity)) =>
              (~last.ok /\ last.error = "insufficient_shares")
        /\ (last.trade.action = "cover" /\ PreHolds("short")
              /\ DGt(last.trade.quantity, PrePos.quantity)) =>
              (~last.ok /\ last.error = "insufficient_shares")
        /\ ~last.ok => portfolio = last.pre

C7_Witness ==
    /\ Applied /\ ~last.ok
    /\ last.trade.action = "buy" /\ PreHolds("short")
    /\ last.error = "insufficient_cash"
    /\ portfolio = last.pre

\* quantity x price + fees + slippage, written out
CostOf(t) == DAdd(DAdd(DMul(t.quantity, t.price), t.fees), t.slippage)

\* price + (fees + slippage) / quantity, written out
OpeningPriceOf(t) == DAdd(t.price, DDiv(DAdd(t.fees, t.slippage), t.quantity))

\* C8: a buy is applied only when cash >= total cost and no short position
\* is held for the ticker; it then lowers cash by exactly quantity x price +
\* fees + slippage and leaves a long position whose quantity is the previous
\* long quantity (0 if none) plus the trade quantity and whose cost basis is
\* the value-weighted average of the old cost and the effective price.
C8_BuyEffect ==
    AppliedOk("buy") =>
        /\ DGe(last.pre.cash, CostOf(last.trade))
        /\ ~PreHolds("short")
        /\ portfolio.cash = DSub(last.pre.cash, CostOf(last.trade))
        /\ PostHeld /\ PostPos.side = "long"
        /\ PostPos.quantity =
              DAdd(IF PreHeld THEN PrePos.quantity ELSE Zero, last.trade.quantity)
        /\ DMul(PostPos.avg_price, PostPos.quantity) =
              DAdd(IF PreHeld THEN DMul(PrePos.quantity, PrePos.avg_price) ELSE Zero,
                   DMul(last.trade.quantity, OpeningPriceOf(last.trade)))
        /\ \A t \in Tickers \ {last.trade.ticker} :
              /\ (t \in DOMAIN portfolio.positions) = (t \in DOMAIN last.pre.positions)
              /\ t \in DOMAIN portfolio.positions =>
                    portfolio.positions[t] = last.pre.positions[t]
        /\ portfolio.realized_pnl = last.pre.realized_pnl

C8_Witness ==
    /\ AppliedOk("buy") /\ PreHolds("long")
    /\ ~NoCosts(last.trade)
    /\ PostPos.avg_price # PrePos.avg_price
    /\ PostPos.avg_price # OpeningPriceOf(last.trade)

\* the trade of the scenario: TradeBuilder(ticker, buy, 100, 150.00)
\* .with_commission_bps(5).with_slippage_bps(2).build()
IsScenarioTrade(t) ==
    \E tk \in RawTickers :
        t = BuildTrade(tk, "buy", 100, 150,
                       << [method |-> "with_commission_bps", arg |-> 5],
                          [method |-> "with_slippage_bps", arg |-> 2] >>)

\* C9 as stated: the scenario trade has fees 75.00, slippage 30.00, total
\* cost 150105.00 and effective price 151.05, and applying it lowers cash by
\* that total cost.
C9_ScenarioAsStated ==
    (Applied /\ IsScenarioTrade(last.trade)) =>
        /\ last.trade.fees = D(75)
        /\ last.trade.slippage = D(30)
        /\ total_cost(last.trade) = D(150105)
        /\ effective_price(last.trade) = Dec(15105, 100)
        /\ last.ok => portfolio.cash = DSub(last.pre.cash, D(150105))

\* C9 amended: the scenario trade has fees 7.50, slippage 3.00, total cost
\* 15010.50 and effective price 150.105, and applying it lowers cash by
\* exactly 15010.50.
C9_ScenarioAmended ==
    (Applied /\ IsScenarioTrade(last.trade)) =>
        /\ last.trade.fees = Dec(750, 100)
        /\ last.trade.slippage = Dec(300, 100)
        /\ total_cost(last.trade) = Dec(1501050, 100)
        /\ effective_price(last.trade) = Dec(150105, 1000)
        /\ last.ok => portfolio.cash = DSub(last.pre.cash, Dec(1501050, 100))

C9_Witness ==
    /\ Applied /\ last.ok /\ IsScenarioTrade(last.trade)
    /\ last.pre.cash = D(20000)
    /\ portfolio.cash = Dec(498950, 100)
    /\ PostPos.avg_price = Dec(150105, 1000)

\* C10: a sell is applied only on a long position of at least the trade
\* quantity; it raises cash by exactly quantity x price - fees - slippage,
\* adds the realized P&L to the accumulator, lowers the position's quantity
\* by the trade quantity with the average cost unchanged, and drops the
\* ticker from the map exactly when nothing remains.
C10_SellEffect ==
    AppliedOk("sell") =>
        /\ PreHolds("long")
        /\ DGe(PrePos.quantity, last.trade.quantity)
        /\ portfolio.cash =
              DAdd(last.pre.cash,
                   DSub(DSub(DMul(last.trade.quantity, last.trade.price),
                             last.trade.fees), last.trade.slippage))
        /\ portfolio.realized_pnl =
              DAdd(last.pre.realized_pnl,
                   DMul(DSub(PrePos.current_price, PrePos.avg_price),
                        last.trade.quantity))
        /\ PostHeld = (PrePos.quantity # last.trade.quantity)
        /\ PostHeld =>
              /\ PostPos.quantity = DSub(PrePos.quantity, last.trade.quantity)
              /\ PostPos.avg_price = PrePos.avg_price
              /\ PostPos.side = "long"

C10_Witness ==
    /\ AppliedOk("sell") /\ ~NoCosts(last.trade)
    /\ PostHeld
    /\ PostPos.quantity = DSub(PrePos.quantity, last.trade.quantity)
    /\ portfolio.realized_pnl # last.pre.realized_pnl
    /\ DGt(portfolio.cash, last.pre.cash)

\* quantity x price - fees - slippage, written out
ProceedsOf(t) == DSub(DSub(DMul(t.quantity, t.price), t.fees), t.slippage)

\* C11: a short raises exactly when a long position is held for the ticker,
\* whatever the cash; when applied it raises cash by exactly quantity x
\* price - fees - slippage and leaves a short position whose quantity is the
\* previous short quantity (0 if none) plus the trade quantity, at the
\* value-weighted average cost.
C11_ShortEffect ==
    (Applied /\ last.trade.action = "short") =>
        /\ last.ok = ~PreHolds("long")
        /\ ~last.ok => last.error = "conflicting_side"
        /\ last.ok =>
              /\ portfolio.cash = DAdd(last.pre.cash, ProceedsOf(last.trade))
              /\ PostHeld /\ PostPos.side = "short"
              /\ PostPos.quantity =
                    DAdd(IF PreHeld THEN PrePos.quantity ELSE Zero,
                         last.trade.quantity)
              /\ DMul(PostPos.avg_price, PostPos.quantity) =
                    DAdd(IF PreHeld THEN DMul(PrePos.quantity, PrePos.avg_price)
                         ELSE Zero,
                         DMul(last.trade.quantity, OpeningPriceOf(last.trade)))
              /\ portfolio.realized_pnl = last.pre.realized_pnl

C11_Witness ==
    /\ AppliedOk("short") /\ PreHolds("short") /\ ~NoCosts(last.trade)
    /\ PostPos.avg_price # PrePos.avg_price
    /\ DGt(portfolio.cash, last.pre.cash)
    /\ DLt(last.pre.cash, CostOf(last.trade))

\* C12: a cover is applied only on a short position of at least the trade
\* quantity and with cash >= total cost; it lowers cash by exactly the total
\* cost, adds (average cost - mark price) x quantity to realized P&L, and
\* reduces the short position, removing it from the map when fully covered.
C12_CoverEffect ==
    AppliedOk("cover") =>
        /\ PreHolds("short")
        /\ DGe(PrePos.quantity, last.trade.quantity)
        /\ DGe(last.pre.cash, CostOf(last.trade))
        /\ portfolio.cash = DSub(last.pre.cash, CostOf(last.trade))
        /\ portfolio.realized_pnl =
              DAdd(last.pre.realized_pnl,
                   DMul(DSub(PrePos.avg_price, PrePos.current_price),
                        last.trade.quantity))
        /\ PostHeld = (PrePos.quantity # last.trade.quantity)
        /\ PostHeld =>
              /\ PostPos.quantity = DSub(PrePos.quantity, last.trade.quantity)
              /\ PostPos.avg_price = PrePos.avg_price
              /\ PostPos.side = "short"

C12_Witness ==
    /\ AppliedOk("cover") /\ ~NoCosts(last.trade)
    /\ PostHeld
    /\ PostPos.quantity = DSub(PrePos.quantity, last.trade.quantity)
    /\ portfolio.realized_pnl # last.pre.realized_pnl
    /\ DLt(portfolio.cash, last.pre.cash)

\* C13: for every trade built, total_cost is quantity x price + fees +
\* slippage, and effective_price is price + (fees + slippage) / quantity for
\* buy and short and price - (fees + slippage) / quantity for sell and cover.
C13_TradeDerivedValues ==
    (last.op \in {"apply_trade", "can_execute_trade"}) =>
        /\ total_cost(last.trade) = CostOf(last.trade)
        /\ last.trade.action \in {"buy", "short"} =>
              effective_price(last.trade) = OpeningPriceOf(last.trade)
        /\ last.trade.action \in {"sell", "cover"} =>
              effective_price(last.trade) =
                  DSub(last.trade.price,
                       DDiv(DAdd(last.trade.fees, last.trade.slippage),
                            last.trade.quantity))

C13_Witness ==
    /\ Applied /\ last.trade.action = "cover" /\ ~NoCosts(last.trade)
    /\ DLt(effective_price(last.trade), last.trade.price)
    /\ DGt(total_cost(last.trade), gross_value(last.trade))


C33_UpdatePricesOnlyMarks ==
    last.op = "update_prices" =>
        /\ portfolio.cash = last.pre.cash
        /\ portfolio.realized_pnl = last.pre.realized_pnl
        /\ portfolio.initial_capital = last.pre.initial_capital
        /\ DOMAIN portfolio.positions = DOMAIN last.pre.positions
        /\ \A t \in DOMAIN last.pre.positions :
              LET old == last.pre.positions[t]
                  new == portfolio.positions[t]
              IN  /\ new.ticker = old.ticker
                  /\ new.quantity = old.quantity
                  /\ new.side = old.side
                  /\ new.avg_price = old.avg_price
                  /\ new.current_price =
                         IF t \in DOMAIN last.prices THEN last.prices[t]
                         ELSE old.current_price

\* a held ticker got a new mark from a map that also prices a ticker not held
C33_Witness ==
    /\ last.op = "update_prices"
    /\ \E t \in DOMAIN last.pre.positions :
          /\ t \in DOMAIN last.prices
          /\ portfolio.positions[t].current_price
                 # last.pre.positions[t].current_price
    /\ \E t \in DOMAIN last.prices : t \notin DOMAIN last.pre.positions

\* the last call applied a trade of one of the actions at the mark of the
\* position it affects (a position opened by the trade is marked at its price)
AtMark(actions) ==
    /\ Applied /\ last.ok /\ last.trade.action \in actions
    /\ LET t == Upper(last.trade.ticker)
       IN  t \in DOMAIN last.pre.positions =>
              last.pre.positions[t].current_price = last.trade.price

ValueChange == DSub(total_value(portfolio), total_value(last.pre))

TradeCosts == DAdd(last.trade.fees, last.trade.slippage)

\* C34: applying an accepted trade (buy, sell, short or cover) whose price
\* equals the affected position's current mark price changes total_value by
\* exactly -(fees + slippage); with zero fees and slippage total_value is
\* unchanged.
C34_ValueConservation ==
    AtMark({"buy", "sell", "short", "cover"}) =>
        /\ ValueChange = DNeg(TradeCosts)
        /\ TradeCosts = Zero => total_value(portfolio) = total_value(last.pre)

\* the same for the trades of the long side only
C34_LongValueConservation ==
    AtMark({"buy", "sell"}) => ValueChange = DNeg(TradeCosts)

\* a short raises and a cover lowers total_value by twice the gross value on
\* top of the costs
C34_ShortValueDoubled ==
    /\ AtMark({"short"}) =>
          ValueChange = DSub(DMul(D(2), gross_value(last.trade)), TradeCosts)
    /\ AtMark({"cover"}) =>
          ValueChange = DNeg(DAdd(DMul(D(2), gross_value(last.trade)), TradeCosts))

\* C30: starting from Portfolio.create(c) with c > 0, after any sequence of
\* trades that can_execute_trade accepted and apply_trade applied, with any
\* non-negative fees and slippage, the portfolio's cash is at least 0.
C30_CashNeverNegative == DGe(portfolio.cash, Zero)

(***************************************************************************)
(* Properties of the engine run                                            *)
(***************************************************************************)
\* the passes of the signal loop made on the day of index k, in order
DayDecisions(k) ==
    LET OnDay(d) == d.i = k
    IN  SelectSeq(decisions, OnDay)

\* the trades of the passes in which apply_trade changed the portfolio
AppliedTrades ==
    LET Took(d) == d.applications > 0
        took == SelectSeq(decisions, Took)
    IN  [k \in DOMAIN took |-> took[k].trade]

\* the close of ticker t on date d in the engine's market data, if quoted
Quoted(t, d) == { r.close : r \in { x \in market_data.prices :
                                      x.ticker = t /\ x.date = d } }

\* day indices whose rebalance test has been passed
DaysDecided ==
    { k \in 0..Len(trading_days) :
        \/ k < day_index
        \/ k = day_index /\ epc \in {"signals", "snapshot"} }

\* C14: two runs of the engine over the same strategy, market data and
\* configuration return the same daily snapshots and the same executed
\* trades, field by field (the timestamp of each trade included).
C14_RunsIdentical ==
    (epc = "returned" /\ first # None) =>
        /\ daily_snapshots = first[1].daily_snapshots
        /\ executed_trades = first[1].executed_trades

\* C15: the strategy is invoked once on each day whose index i has
\* i mod rebalance_frequency = 0 (the first day included) and on no other
\* day; a day of any other index sees no pass of the signal loop, and at its
\* snapshot the cash, the realized P&L, every position's quantity and the
\* trade log are those the day began with.
C15_RebalanceDaysOnly ==
    /\ \A k \in DOMAIN calls :
          /\ calls[k].i % config.rebalance_frequency = 0
          /\ calls[k].current_date = trading_days[calls[k].i + 1]
          /\ \A m \in DOMAIN calls : m < k => calls[m].i < calls[k].i
    /\ epc \in {"day", "signals", "snapshot", "returned"} =>
          { calls[k].i : k \in DOMAIN calls }
              = { k \in DaysDecided : k < Len(trading_days)
                                      /\ k % config.rebalance_frequency = 0 }
    /\ \A k \in DOMAIN decisions :
          decisions[k].i % config.rebalance_frequency = 0
    /\ executed_trades = AppliedTrades
    /\ (epc = "snapshot" /\ day_index % config.rebalance_frequency # 0) =>
          /\ last.op = "update_prices"
          /\ portfolio.cash = last.pre.cash
          /\ portfolio.realized_pnl = last.pre.realized_pnl
          /\ DOMAIN portfolio.positions = DOMAIN last.pre.positions
          /\ \A t \in DOMAIN portfolio.positions :
                portfolio.positions[t].quantity = last.pre.positions[t].quantity

C15_Witness ==
    /\ epc = "returned"
    /\ config.rebalance_frequency = 2
    /\ Len(trading_days) = 2
    /\ Len(calls) = 1
    /\ executed_trades # << >>

\* C16: the signals of a rebalance day go through the loop in the order
\* returned; each pass asks can_execute_trade on the portfolio left by the
\* earlier passes; the trade is applied once and appended to the log exactly
\* when the answer was true; a rejected trade leaves portfolio and log as
\* they were, raises nothing, and the later signals are still processed.
\* The log is the sequence of applied trades, each applied once.
C16_SignalLoop ==
    /\ \A k \in DOMAIN decisions :
          LET d == decisions[k]
              prior == IF k > 1 /\ decisions[k - 1].i = d.i
                       THEN {decisions[k - 1].post}
                       ELSE { c.portfolio : c \in { x \in Range(calls) : x.i = d.i } }
          IN  /\ prior = {d.pre}
              /\ ~d.raised
              /\ d.trade = NoTrade => ~d.can_execute
              /\ d.trade # NoTrade =>
                    d.can_execute = can_execute_trade(d.pre, d.trade)[1]
              /\ d.applications = IF d.can_execute THEN 1 ELSE 0
              /\ d.can_execute =>
                    /\ apply_trade(d.pre, d.trade) = Returned(d.post)
                    /\ d.post # d.pre
              /\ ~d.can_execute => d.post = d.pre
    /\ executed_trades = AppliedTrades
    /\ \A k \in DOMAIN calls :
          LET c == calls[k]
              done == DayDecisions(c.i)
              seen == [m \in DOMAIN done |-> done[m].signal]
          IN  IF c.i = day_index /\ epc = "signals"
              THEN seen \o signals = c.signals
              ELSE epc # "raised" => seen = c.signals
    /\ (epc \in {"signals", "snapshot"} /\ DayDecisions(day_index) # << >>) =>
          portfolio = decisions[Len(decisions)].post

C16_Witness ==
    \E k \in DOMAIN decisions :
        /\ k > 1
        /\ decisions[k - 1].i = decisions[k].i
        /\ decisions[k - 1].trade # NoTrade
        /\ ~decisions[k - 1].can_execute
        /\ decisions[k].can_execute
        /\ Len(executed_trades) = 2

\* C17: on day d the market data handed to the strategy holds no row dated
\* after d; the day's prices are the closes quoted on d; every position is
\* marked at a close quoted on d or earlier; every trade built on day d
\* carries the close its ticker is quoted at on d.
C17_NoLookAhead ==
    /\ \A k \in DOMAIN calls :
          /\ \A r \in calls[k].market_data.prices :
                r.date <= calls[k].current_date
          /\ calls[k].market_data.prices
                = { r \in market_data.prices : r.date <= calls[k].current_date }
    /\ epc \in {"rebalance", "signals", "snapshot"} =>
          /\ \A r \in point_in_time_data.prices : r.date <= current_date
          /\ \A t \in DOMAIN current_prices :
                Quoted(t, current_date) = {current_prices[t]}
          /\ \A t \in DOMAIN portfolio.positions :
                \E dd \in 1..current_date :
                    portfolio.positions[t].current_price \in Quoted(t, dd)
    /\ \A k \in DOMAIN decisions :
          decisions[k].trade # NoTrade =>
              Quoted(decisions[k].trade.ticker, trading_days[decisions[k].i + 1])
                  = {decisions[k].trade.price}

C17_Witness ==
    /\ \E k \in DOMAIN calls :
          \E r \in market_data.prices : r.date > calls[k].current_date
    /\ \E k \in DOMAIN decisions :
          /\ decisions[k].applications = 1
          /\ decisions[k].i = 0
    /\ epc = "snapshot"
    /\ day_index = 0
    /\ Len(trading_days) = 2

\* C18: the day list is every date of the data in strictly ascending order;
\* the loop takes the days one by one and the run returns only when the
\* list is exhausted; after k days the history holds k snapshots, the k-th
\* dated with the k-th day and taken from the portfolio as the day's price
\* update and trades left it.
C18_OneSnapshotPerDay ==
    /\ epc \in {"day", "rebalance", "signals", "snapshot", "returned"} =>
          /\ Range(trading_days) = { r.date : r \in market_data.prices }
          /\ \A k \in DOMAIN trading_days :
                \A m \in DOMAIN trading_days :
                    k < m => trading_days[k] < trading_days[m]
          /\ Len(daily_snapshots) = day_index
          /\ \A k \in DOMAIN daily_snapshots :
                daily_snapshots[k].date = trading_days[k]
    /\ epc = "returned" =>
          /\ day_index = Len(trading_days)
          /\ Len(daily_snapshots) = Len(trading_days)
    /\ (epc = "day" /\ day_index > 0) =>
          LET today == DayDecisions(day_index - 1)
              left == IF today # << >> THEN today[Len(today)].post
                      ELSE update_prices(last.pre, current_prices)
          IN  /\ portfolio = left
              /\ daily_snapshots[day_index]
                    = snapshot(trading_days[day_index], left)

C18_Witness ==
    /\ epc = "returned"
    /\ Len(daily_snapshots) = 2
    /\ Len(executed_trades) = 2
    /\ daily_snapshots[1].cash # daily_snapshots[2].cash


\* C24: two engines over the same inputs whose runs interleave at any point
\* each return what the run on its own returned: the same daily snapshots,
\* the same executed trades (timestamps included) and the same final
\* portfolio.
C24_ConcurrentRunsAsAlone ==
    (first # None /\ other # None) =>
        /\ epc = "returned" =>
              /\ daily_snapshots = first[1].daily_snapshots
              /\ executed_trades = first[1].executed_trades
              /\ portfolio = first[1].portfolio
        /\ other[1].epc = "returned" =>
              /\ other[1].daily_snapshots = first[1].daily_snapshots
              /\ other[1].executed_trades = first[1].executed_trades
              /\ other[1].portfolio = first[1].portfolio

(***************************************************************************)
(* Properties of the service call                                          *)
(***************************************************************************)
\* the stages the hook has been told of, in order
StagesTold == [k \in DOMAIN service.events |-> service.events[k].stage]

\* C19: the hook is told the stages in the fixed order, each at most once,
\* with progress in [0,1] never decreasing; a call that returns has told all
\* five; a call that raises has told fewer than five, never "complete".
C19_StagesInOrder ==
    service.hook =>
        /\ Len(StagesTold) <= Len(Stages)
        /\ StagesTold = SubSeq(Stages, 1, Len(StagesTold))
        /\ \A k \in DOMAIN service.events :
              /\ DGe(service.events[k].progress, Zero)
              /\ DLe(service.events[k].progress, D(1))
              /\ k > 1 => DLe(service.events[k - 1].progress,
                              service.events[k].progress)
        /\ service.outcome = "returned" => StagesTold = Stages
        /\ service.outcome = "raised" =>
              /\ Len(StagesTold) < Len(Stages)
              /\ "complete" \notin Range(StagesTold)

\* C20: a call with a hook ends as the call without one did on the same
\* arguments: it returns or raises alike and returns the same results,
\* whatever the hook does.
C20_HookChangesNothing ==
    (service.hook /\ service.pc \in {"returned", "raised", "blocked"}) =>
        /\ service.outcome = plain[1].outcome
        /\ service.outcome = "returned" =>
              service.results_dict = plain[1].results_dict

(***************************************************************************)
(* Properties of the streamed request                                      *)
(***************************************************************************)
\* the run this request asks for aborts: in validation, in loading the data
\* or inside engine.run()
Aborts(req) ==
    \/ req.strategy_name \notin AVAILABLE_STRATEGIES
    \/ req.data = "fails"
    \/ req.engine = "raises"

\* the message of the exception that aborts it
OriginatingError(req) ==
    IF req.strategy_name \notin AVAILABLE_STRATEGIES THEN UnknownStrategy
    ELSE IF req.data = "fails" THEN FailedToLoad
    ELSE EngineError

Streaming == route.pc # "none" /\ route.iso

\* C21: a run that aborts is reported by an error event carrying the message
\* of the exception that aborted it, the last event of the stream, and no
\* row is stored for it; a row is stored only once run_backtest has
\* returned, for a run that did not abort, with status "completed".
C21_AbortedRunReported ==
    /\ store # << >> =>
          /\ Len(store) = 1
          /\ Streaming
          /\ ~Aborts(request)
          /\ service.outcome = "returned"
          /\ store[1].status = "completed"
          /\ store[1].error_message = None
    /\ (Streaming /\ Aborts(request)) =>
          /\ store = << >>
          /\ \A k \in 1..Len(route.stream) :
                route.stream[k].event = "error" =>
                   /\ k = Len(route.stream)
                   /\ route.stream[k] = ErrorEvent(OriginatingError(request))
          /\ route.pc = "done" =>
                /\ route.stream # << >>
                /\ route.stream[Len(route.stream)].event = "error"
                /\ route.task = "done"

\* engine.run() raised after three notifications; the client got them and
\* then the error
C21_Witness ==
    /\ Streaming
    /\ request.strategy_name \in AVAILABLE_STRATEGIES
    /\ request.data = "loads"
    /\ request.engine = "raises"
    /\ route.pc = "done"
    /\ Len(route.stream) = 4
    /\ route.stream[4] = ErrorEvent(EngineError)
    /\ store = << >>

(***************************************************************************)
(* Properties of a backtest from either entry point                        *)
(***************************************************************************)
\* the arguments name no known strategy, no ticker, a range that starts
\* after it ends, or data the provider cannot serve
PreRunFailure(req) ==
    \/ req.strategy_name \notin AVAILABLE_STRATEGIES
    \/ req.tickers = << >>
    \/ req.start_date > req.end_date
    \/ req.data = "fails"

\* the strategy was not invoked, no snapshot recorded, no trade applied
NoDaySimulated ==
    /\ calls = << >>
    /\ decisions = << >>
    /\ daily_snapshots = << >>
    /\ executed_trades = << >>
    /\ epc \notin {"day", "rebalance", "signals", "snapshot", "returned"}

\* C22: a call of run_backtest whose strategy is unknown, whose ticker list
\* is empty, whose range starts after it ends or whose data the provider
\* cannot serve never builds an engine and never returns: it is still
\* before the engine or it has raised; and an engine whose market data
\* yields no trading day raises out of run() before the loop. In both
\* cases the strategy is not invoked, no snapshot is recorded and no trade
\* is applied.
C22_PreRunFailuresSimulateNothing ==
    /\ (service.pc # "none" /\ PreRunFailure(request)) =>
          /\ NoDaySimulated
          /\ epc = "none"
          /\ service.pc \in {"validate", "notify_loading_data", "load", "raised"}
          /\ service.pc = "raised" =>
                service.error \in {UnknownStrategy, FailedToLoad}
          /\ service.results_dict = None
    /\ (epc # "none" /\ _get_trading_days(market_data) = << >>) =>
          /\ NoDaySimulated
          /\ epc \in {"constructed", "raised"}
          /\ portfolio = create(D(config.initial_capital))

\* a known strategy over a range that starts after it ends: the call raised
\* out of the data loading
C22_Witness ==
    /\ request.strategy_name \in AVAILABLE_STRATEGIES
    /\ request.tickers # << >>
    /\ request.data = "loads"
    /\ request.start_date > request.end_date
    /\ service.pc = "raised"
    /\ service.error = FailedToLoad
    /\ NoDaySimulated


(***************************************************************************)
(* Properties of the performance metrics                                   *)
(***************************************************************************)
Calculated == calculator # None /\ calculator.metrics # None

\* the maximum of values[1..t]
runningMax(values, t) ==
    CHOOSE m \in { values[k] : k \in 1..t } :
        \A k \in 1..t : DLe(values[k], m)

\* (value[t] - runningMax[t]) / runningMax[t]
drawdownAt(values, t) ==
    DDiv(DSub(values[t], runningMax(values, t)), runningMax(values, t))

\* C25: max_drawdown of a value series is the minimum over t of
\* (value[t] - runningMax[t]) / runningMax[t], runningMax[t] being the
\* maximum of the values up to and including t; it is never above 0, it is 0
\* for fewer than two values, and a peak after a trough leaves the drawdown
\* at the trough as it was: [100000, 90000, 120000] gives -0.10.
C25_MaxDrawdown ==
    Calculated =>
        LET values == calculator.self.daily_values
            result == calculator.metrics[1].max_drawdown
        IN  /\ result.kind = "rat"
            /\ DLe(result.q, Zero)
            /\ Len(values) < 2 => result.q = Zero
            /\ Len(values) >= 2 =>
                   /\ \E t \in DOMAIN values : result.q = drawdownAt(values, t)
                   /\ \A t \in DOMAIN values : DLe(result.q, drawdownAt(values, t))
            /\ values = ScenarioValues => result.q = Dec(-1, 10)

\* the scenario curve has been measured: its trough is followed by a new peak
C25_Witness ==
    /\ Calculated
    /\ calculator.self.daily_values = ScenarioValues
    /\ calculator.metrics[1].max_drawdown = Rat(Dec(-1, 10))


\* a daily return below zero exists
HasNegativeReturn == \E k \in DOMAIN calculator.self.daily_returns :
                         DLt(calculator.self.daily_returns[k], Zero)

\* the downside volatility the code computes from the negative returns is 0
DownsideVolatilityZero ==
    /\ HasNegativeReturn
    /\ IsZero(TimesSqrt(np_std(Negative(calculator.self.daily_returns))))

\* C26 as stated: for every value series sortino_ratio is the
\* positive-infinity sentinel when no daily return is negative and 0 when the
\* computed downside volatility is 0, calmar_ratio is the sentinel when
\* max drawdown is exactly 0, and the metrics output carries these values.
C26_Sentinels ==
    Calculated =>
        LET output == calculator.metrics[1]
        IN  /\ ~HasNegativeReturn => output.sortino_ratio = Inf
            /\ DownsideVolatilityZero => output.sortino_ratio = Rat(Zero)
            /\ IsZero(output.max_drawdown) => output.calmar_ratio = Inf

\* C26, amended: for every value series with at least one daily return
\* (two values or more) sortino_ratio is the positive-infinity sentinel when
\* no daily return is negative; with fewer than two values it is 0; it is 0
\* when the computed downside volatility is 0; calmar_ratio is the sentinel
\* when max drawdown is exactly 0; the metrics output carries these values.
C26_SentinelsWithReturns ==
    Calculated =>
        LET output == calculator.metrics[1]
            values == calculator.self.daily_values
        IN  /\ Len(values) >= 2 /\ ~HasNegativeReturn =>
                   output.sortino_ratio = Inf
            /\ Len(values) < 2 => output.sortino_ratio = Rat(Zero)
            /\ DownsideVolatilityZero => output.sortino_ratio = Rat(Zero)
            /\ IsZero(output.max_drawdown) => output.calmar_ratio = Inf

\* a rising curve has been measured: both sentinels are in the output
C26_Witness ==
    /\ Calculated
    /\ Len(calculator.self.daily_values) >= 2
    /\ ~HasNegativeReturn
    /\ calculator.metrics[1].sortino_ratio = Inf
    /\ calculator.metrics[1].calmar_ratio = Inf

\* every value of the curve is the same
Flat == \A k \in DOMAIN calculator.self.daily_values :
            calculator.self.daily_values[k] = calculator.self.daily_values[1]

\* C27: sharpe_ratio is 0 whenever annualized volatility is 0 or the data
\* does not suffice to compute it, series too short for a sample standard
\* deviation (fewer than two daily returns) included; a flat equity curve
\* yields sharpe = 0, volatility = 0 and max drawdown = 0.
C27_SharpeZero ==
    Calculated =>
        LET output == calculator.metrics[1]
            values == calculator.self.daily_values
        IN  /\ IsZero(output.volatility) => output.sharpe_ratio = Rat(Zero)
            /\ Len(values) < 3 => output.sharpe_ratio = Rat(Zero)
            /\ Len(values) >= 1 /\ Flat =>
                   /\ output.sharpe_ratio = Rat(Zero)
                   /\ output.volatility = Rat(Zero)
                   /\ output.max_drawdown = Rat(Zero)

\* C28: win_rate is the fraction of P&L values above 0; profit_factor is
\* grossProfit / grossLoss, the infinity sentinel when grossLoss is 0 and
\* grossProfit > 0, else 0; average_win_loss_ratio is meanWin / meanLoss and
\* the infinity sentinel when there are wins but no losing trade.
C28_TradeMetrics ==
    Calculated /\ calculator.trades_pnl # None =>
        LET output == calculator.metrics[1]
            trades_pnl == calculator.trades_pnl[1]
            wins == { k \in DOMAIN trades_pnl : trades_pnl[k].n > 0 }
            losses == { k \in DOMAIN trades_pnl : trades_pnl[k].n < 0 }
            grossProfit == sum(Wins(trades_pnl))
            grossLoss == DNeg(sum(Losses(trades_pnl)))
        IN  /\ Len(trades_pnl) > 0 =>
                   output.win_rate =
                       Rat(Dec(Cardinality(wins), Len(trades_pnl)))
            /\ Len(trades_pnl) > 0 =>
                   output.profit_factor =
                       IF grossLoss # Zero THEN Rat(DDiv(grossProfit, grossLoss))
                       ELSE IF DGt(grossProfit, Zero) THEN Inf
                       ELSE Rat(Zero)
            /\ wins # {} /\ losses # {} =>
                   output.avg_win_loss_ratio =
                       Rat(DDiv(DDiv(grossProfit, D(Cardinality(wins))),
                                DDiv(grossLoss, D(Cardinality(losses)))))
            /\ wins # {} /\ losses = {} => output.avg_win_loss_ratio = Inf


(***************************************************************************)
(* Properties of the results object                                        *)
(***************************************************************************)
\* positions of the closing (sell / cover) trades in a trade log
ClosingIn(log) == { k \in DOMAIN log : log[k].action \in {"sell", "cover"} }

\* C29: the per-trade P&L list has exactly one entry per closing trade of the
\* log, every entry is the portfolio's aggregate realized P&L divided by the
\* number of closing trades, and the list is empty without a closing trade;
\* the metrics are computed at the first access, not before, and every later
\* access returns the cached value.
C29_EqualShareAndCache ==
    backtest_results # None =>
        LET R == backtest_results
        IN  /\ R.reads = 0 => R.self.metrics_cache = None
            /\ R.reads >= 1 =>
                   LET found == R.found[1]
                       n == Cardinality(ClosingIn(found.executed_trades))
                   IN  /\ Len(R.trades_pnl) = n
                       /\ \A k \in DOMAIN R.trades_pnl :
                              R.trades_pnl[k] =
                                  FloatQuotient(found.portfolio.realized_pnl, n)
                       /\ R.first_value = Some(calculate_metrics(found))
                       /\ R.self.metrics_cache = R.first_value
                       /\ R.returned = R.first_value

\* a second access after the log grew by a closing trade returned the dict
\* of the first access, computed from two closing trades
C29_Witness ==
    /\ backtest_results # None
    /\ backtest_results.reads = 2
    /\ Len(backtest_results.trades_pnl) = 2
    /\ Cardinality(ClosingIn(backtest_results.self.executed_trades)) = 3
    /\ backtest_results.returned = backtest_results.first_value


(***************************************************************************)
(* Properties of a position used on its own                                *)
(***************************************************************************)
Removed == position_call # None /\ position_call.last.op = "remove_shares"

Added == position_call # None /\ position_call.last.op = "add_shares"

\* C31: remove_shares(qty) fails when qty exceeds the held quantity;
\* otherwise it returns the realized P&L (mark - cost) x qty for a long and
\* (cost - mark) x qty for a short, together with the remaining position
\* (same ticker, side and cost basis, quantity reduced by qty) or the
\* full-closure marker None exactly when the remaining quantity is zero.
C31_RemoveShares ==
    Removed =>
        LET c == position_call.last
            pre == c.pre
            left == DSub(pre.quantity, c.quantity)
        IN  /\ c.raised <=> DGt(c.quantity, pre.quantity)
            /\ ~c.raised =>
                   /\ c.realized_pnl =
                          IF pre.side = "long"
                          THEN DMul(DSub(pre.current_price, pre.avg_price),
                                    c.quantity)
                          ELSE DMul(DSub(pre.avg_price, pre.current_price),
                                    c.quantity)
                   /\ c.returned = None <=> left = Zero
                   /\ c.returned # None =>
                          /\ c.returned[1].ticker = pre.ticker
                          /\ c.returned[1].side = pre.side
                          /\ c.returned[1].avg_price = pre.avg_price
                          /\ c.returned[1].quantity = left

\* a short position marked away from its cost has been closed in full
C31_Witness ==
    /\ Removed
    /\ ~position_call.last.raised
    /\ position_call.last.returned = None
    /\ position_call.last.pre.side = "short"
    /\ position_call.last.realized_pnl # Zero

\* the quantity and the total cost a position would have after add_shares
NewQuantity == DAdd(position_call.last.pre.quantity, position_call.last.quantity)

NewCost ==
    DAdd(DMul(position_call.last.pre.quantity, position_call.last.pre.avg_price),
         DMul(position_call.last.quantity, position_call.last.price))

\* what add_shares returns when it returns: quantity oldQty + qty, cost basis
\* (oldQty x oldCost + qty x price) / (oldQty + qty), the rest as it was
AddedAsSpecified ==
    LET c == position_call.last
    IN  /\ ~c.raised
        /\ c.returned # None
        /\ c.returned[1].quantity = NewQuantity
        /\ c.returned[1].avg_price = DDiv(NewCost, NewQuantity)
        /\ DMul(c.returned[1].quantity, c.returned[1].avg_price) = NewCost
        /\ c.returned[1].ticker = c.pre.ticker
        /\ c.returned[1].side = c.pre.side
        /\ c.returned[1].current_price = c.pre.current_price

ClosingDecisions ==
    { k \in DOMAIN decisions :
        /\ decisions[k].applications > 0
        /\ decisions[k].trade.action \in {"sell", "cover"} }

\* the position the engine's portfolio held for the trade of pass k
HeldBefore(k) == decisions[k].pre.positions[Upper(decisions[k].trade.ticker)]

\* the close of a ticker on the trading day of index k
DayClose(k, ticker) ==
    _get_current_prices(market_data, trading_days[k + 1])[ticker]

\* C35: in an engine run, when a sell or a cover is applied, the held
\* position's mark price equals the trade's execution price (both are the
\* day's close), so the realized P&L the trade books is
\* (trade price - average cost) x quantity for a long and
\* (average cost - trade price) x quantity for a short.
C35_ClosingAtTheMark ==
    \A k \in ClosingDecisions :
        LET d == decisions[k]
            held == HeldBefore(k)
            booked == DSub(d.post.realized_pnl, d.pre.realized_pnl)
        IN  /\ held.current_price = d.trade.price
            /\ d.trade.price = DayClose(d.i, Upper(d.trade.ticker))
            /\ booked = IF held.side = "long"
                        THEN DMul(DSub(d.trade.price, held.avg_price), d.trade.quantity)
                        ELSE DMul(DSub(held.avg_price, d.trade.price), d.trade.quantity)

\* a position opened on the first day is closed on the second, at another
\* close than the one it was opened and last marked at
C35_Witness ==
    \E k \in ClosingDecisions : \E j \in DOMAIN decisions :
        /\ decisions[j].applications > 0
        /\ decisions[j].i < decisions[k].i
        /\ decisions[j].trade.ticker = decisions[k].trade.ticker
        /\ decisions[j].trade.action \in {"buy", "short"}
        /\ decisions[j].trade.price # decisions[k].trade.price
        /\ decisions[j].post.positions[Upper(decisions[j].trade.ticker)].current_price
               # decisions[k].trade.price

(***************************************************************************)
(* Properties of the end of the event stream                               *)
(***************************************************************************)
\* an event of the stream that carries the 'complete' notification
CompleteEvent(e) == e.event = "message" /\ e.data[2].stage = "complete"

\* an item of the queue that is the 'complete' notification
CompleteItem(item) == "stage" \in DOMAIN item /\ item.stage = "complete"

ReportedComplete ==
    \E k \in DOMAIN route.stream : CompleteEvent(route.stream[k])

C36_CompleteNeverDelivered ==
    /\ ~ReportedComplete
    /\ (route.pc = "done" /\ service.outcome = "returned") =>
          route.stream[Len(route.stream)] = ErrorEvent(InternalError)

\* on the queue no error item follows the 'complete' notification
C36_NoErrorItemAfterComplete ==
    \A k \in DOMAIN progress_queue : \A j \in DOMAIN progress_queue :
        (k < j /\ CompleteItem(progress_queue[k])) =>
            "error" \notin DOMAIN progress_queue[j]

\* an item that ends the consumer's loop: the end sentinel or an error
Terminating(item) == item = Sentinel \/ "error" \in DOMAIN item

\* the task has put a terminating item, the end sentinel last, and every
\* progress item comes before the first of them
C37_TerminatingItem ==
    route.task = "done" =>
        /\ progress_queue # << >>
        /\ progress_queue[Len(progress_queue)] = Sentinel
        /\ \A k \in DOMAIN progress_queue : \A j \in DOMAIN progress_queue :
              (k < j /\ Terminating(progress_queue[k])) =>
                  Terminating(progress_queue[j])

\* the generator has finished: the stream has ended
C37_StreamEnds == <>(route.pc = "done")

\* the generator finishes only once the task it started is done
C37_TaskAwaited ==
    route.pc = "done" => route.task \in {"none", "done"}

MetricsRead == backtest_results # None /\ backtest_results.reads > 0

\* C38: the num_trades value of the computed metrics (the value stored as
\* the run's num_trades) equals the number of executed trades in the run's
\* trade log, BacktestResults.num_trades.
C38_NumTradesIsLogLength ==
    MetricsRead =>
        backtest_results.first_value[1].num_trades
            = num_trades(backtest_results.found[1])

\* what the metrics hold: the number of closing trades (sell, cover) of the
\* log
C38_NumTradesCountsClosing ==
    MetricsRead =>
        backtest_results.first_value[1].num_trades
            = Len(SelectSeq(backtest_results.found[1].executed_trades, is_closing))

(***************************************************************************)
(* Properties of a second run() on the same engine                         *)
(***************************************************************************)
\* the second call of run() is at the head of its loop
SecondRunStarts == first # None /\ epc = "day" /\ day_index = 0

\* the second call of run() has returned
SecondRunReturned == first # None /\ epc = "returned"

\* C39: every call of run() starts from a portfolio holding exactly the
\* initial capital, with empty snapshot history and empty trade log: a
\* second run() on the same engine returns the same snapshots, trades and
\* final portfolio as the first.
C39_SecondRunSameAsFirst ==
    /\ SecondRunStarts =>
          /\ portfolio = create(D(config.initial_capital))
          /\ daily_snapshots = << >>
          /\ executed_trades = << >>
    /\ SecondRunReturned =>
          /\ daily_snapshots = first[1].daily_snapshots
          /\ executed_trades = first[1].executed_trades
          /\ portfolio = first[1].portfolio

\* what the second call returns: the first call's snapshots followed by one
\* more for each trading day, the first call's trades followed by its own,
\* from a run that started at the first call's final portfolio
C39_SecondRunAppends ==
    /\ SecondRunStarts =>
          /\ portfolio = first[1].portfolio
          /\ daily_snapshots = first[1].daily_snapshots
          /\ executed_trades = first[1].executed_trades
    /\ SecondRunReturned =>
          /\ Len(daily_snapshots) = 2 * Len(first[1].daily_snapshots)
          /\ SubSeq(daily_snapshots, 1, Len(first[1].daily_snapshots))
                 = first[1].daily_snapshots
          /\ Len(executed_trades) >= Len(first[1].executed_trades)
          /\ SubSeq(executed_trades, 1, Len(first[1].executed_trades))
                 = first[1].executed_trades
====
